---- MODULE Spec2Model ----
(***************************************************************************)
(* The stress driver of the Moray test suite (test/stress-client.js): the  *)
(* command registry, scCommandStart / scCommandLoop, the per-iteration     *)
(* watchdog and the Kang introspection callbacks.                          *)
(*                                                                         *)
(* One action is one turn of the Node event loop: a handler runs to        *)
(* completion, together with everything it calls synchronously.  What the  *)
(* collaborators do (a setup or an exec calling back, with or without an   *)
(* error, a timer expiring, a Kang query arriving) is the environment's    *)
(* choice.                                                                 *)
(***************************************************************************)
EXTENDS Integers, Sequences, FiniteSets, TLC

(* Bounds of the model. *)
NumCommands == 2
MaxIter == 2
MaxTime == 1

(* stress-client.js:60 *)
scWatchdogLimit == 30000

(* One tick of the clock, in milliseconds. *)
TickMs == scWatchdogLimit

(* "null" for a Date field and for ctx.timer. *)
NullDate == -1
NullTimer == 0

Cmds == 0 .. NumCommands - 1

(* Who sets timers: every command's loop, and helper.createServer (-1). *)
Owners == Cmds \cup {-1}

(* The registry: scCommands.push({ name, setup, exec }) x 5.  The model    *)
(* keeps the first NumCommands entries.                                    *)
CommandNames ==
    << "make RPC requests before ever connected",
       "make RPC requests after connection closed",
       "disconnect/reconnect repeatedly",
       "failed RPC requests",
       "successful RPC requests" >>

ExecNames ==
    << "cmdRpcNeverConnected", "cmdRpcDisconnected", "cmdRpcReconnect",
       "cmdRpcFail", "cmdRpcOkay" >>

scCommands ==
    [c \in Cmds |-> [name |-> CommandNames[c + 1], funcname |-> ExecNames[c + 1]]]

VARIABLES
    mainpc,       \* where main() is: "kangStarting", "serverCreating", "running"
    proc,         \* "alive", "failed" (cmdutil.fail), "aborted" (process.abort),
                  \* "crashed" (uncaught exception)
    scServer,     \* FALSE until helper.createServer has called back
    ctx,          \* cmdspec.ctx of every command that has one (a partial function)
    setupState,   \* per command: "notStarted", "pending", "done", "failed"
    ndone,        \* vasync.forEachParallel: callbacks received
    nerrors,      \* vasync.forEachParallel: callbacks that carried an error
    outstanding,  \* per command: iterations whose exec has not called back
    immediates,   \* per command: pending setImmediate(scCommandLoop, cmdspec)
    timers,       \* the timers that are set and neither cleared nor fired
    ntimers,      \* per owner: how many timers it has set so far
    now,          \* the clock, in ticks of TickMs milliseconds
    output,       \* what was written to stderr and to the log at level fatal
    lastTurn      \* the handler that ran in the last turn, and what it returned

mainVars == << mainpc, proc, scServer, ctx, setupState, ndone, nerrors,
               outstanding, immediates, timers, ntimers, now, output, lastTurn >>

(***************************************************************************)
(* The clients and servers of the five commands, and where each command is *)
(* in its setup and in its exec (stress-client.js:227-659).                *)
(***************************************************************************)
VARIABLES
    clients,      \* the client objects created so far, in order of creation
    ctxClient,    \* per command: ctx.client as an index of clients, 0 if unset
    servers,      \* the server processes that have been started and not exited
    xpc,          \* per command: where its setup or its exec stands
    nloops,       \* ctx.nloops of the reconnect command
    xlast         \* the RPC callback that ran last: its error and what it did

connVars == << clients, ctxClient, servers, xpc, nloops, xlast >>

(* The whole registry: Cmds is its prefix of NumCommands commands. *)
AllCmds == 0 .. Len(CommandNames) - 1

(* An error is the sequence of the names along its cause chain, outermost  *)
(* first; a call that succeeded hands its callback no error.               *)
MaxChain == 2
NoErr == << >>
ErrNames ==
    {"NoBackendsError", "FastTransportError", "FastProtocolError",
     "FastRequestError"}
Errs == UNION {[1 .. k -> ErrNames] : k \in 1 .. MaxChain}
Results == {NoErr} \cup Errs

ConnInit ==
    /\ clients = << >>
    /\ ctxClient = [c \in AllCmds |-> 0]
    /\ servers = {}
    /\ xpc = [c \in AllCmds |-> "init"]
    /\ nloops = 0
    /\ xlast = [op |-> "none", cmd |-> -1, err |-> NoErr, out |-> "none"]

(***************************************************************************)
(* The failure sweep: one pipeline of fourteen calls per iteration         *)
(* (stress-client.js:407-528).                                             *)
(***************************************************************************)
VARIABLES
    fpc,          \* the step whose call is outstanding; 0 idle, -1 dead
    flast         \* the step whose callback ran last, its result, what it did

failVars == << fpc, flast >>

(* What a failed call hands its callback besides the cause chain: the      *)
(* message, as the sequence of its parts.                                  *)
FailErrNames ==
    {"InvalidBucketNameError", "BucketNotFoundError", "FieldUpdateError",
     "FastRequestError"}
FailErrs == UNION {[1 .. k -> FailErrNames] : k \in 1 .. MaxChain}
Messages ==
    {<< "Operation not supported" >>,
     << "getTokens: ", "Operation not supported" >>,
     << "relation \"bogus\" does not exist" >>,
     << "Operation not supported", " by this server" >>}
Success == [err |-> NoErr, message |-> << >>]
FailResults ==
    {Success} \cup [err : FailErrs, message : Messages]

FailInit ==
    /\ fpc = 0
    /\ flast = [step |-> 0, res |-> Success, out |-> "none"]

(***************************************************************************)
(* The success sweep: one pipeline of seventeen calls per iteration        *)
(* (stress-client.js:540-658), and the test bucket on the shared server.   *)
(***************************************************************************)
VARIABLES
    opc,          \* the step whose call is outstanding; 0 idle, -1 dead
    store,        \* the test bucket on the server: whether it exists, whether
                  \* field1 is indexed, and field1 of every object by key
    ostart,       \* the store as it was when the current iteration started
    olast         \* the step whose callback ran last, its error, what it did

okayVars == << opc, store, ostart, olast >>

Keys == {"key2", "key3", "key5", "key7", "key9"}
Values == {2, 3, 5, 7, 9, 10}

(* The server without the test bucket. *)
CleanStore == [exists |-> FALSE, indexed |-> FALSE, objs |-> << >>]

(* What an earlier run may have left of the test bucket: at most           *)
(* MaxLeftover objects under the keys of the sweep.                        *)
MaxLeftover == 1
Leftovers ==
    {CleanStore} \cup
    [exists : {TRUE}, indexed : BOOLEAN,
     objs : UNION {[S -> Values] :
                     S \in {T \in SUBSET Keys : Cardinality(T) <= MaxLeftover}}]

OkayInitVars ==
    /\ opc = 0
    /\ ostart = CleanStore
    /\ olast = [step |-> 0, err |-> NoErr, out |-> "none", fault |-> FALSE]

(***************************************************************************)
(* The loop test (loop.test.js): PutObject/GetObject pairs from a queue.   *)
(***************************************************************************)
VARIABLES
    ignoreExplicitErrors,  \* whether --ignore-explicit-errors was given
    lphase,       \* connecting, running, cleanup, closed or crashed
    ops,          \* per operation: where it stands, and its op_error
    bucket,       \* the objects of the test bucket by key
    nokay,        \* count of successful operations
    nfailed,      \* count of total failures
    nbyerror,     \* count of failures by error name
    lnow,         \* the clock of the loop test, in ticks
    llast         \* the callback that ran last, what it got, what it did

loopVars ==
    << ignoreExplicitErrors, lphase, ops, bucket, nokay, nfailed, nbyerror,
       lnow, llast >>

(* The per-operation timeout (loop.test.js:34), in milliseconds, and one   *)
(* tick of the loop test's clock.                                          *)
timeout == 60000
LTickMs == timeout
MaxLoopTime == 2

(* op_timeout of an operation whose timer is not set (loop.test.js:87,     *)
(* 144); a timer that is set is modelled by the time it was set at.        *)
NoTimeout == -1

(* noperations and concurrency (loop.test.js:32-33); the test runs 5000    *)
(* operations, 5 at a time.                                                *)
noperations == 3
concurrency == 2
Ops == 1 .. noperations

(* op_value (loop.test.js:86): '' + 1 is the string "1". *)
op_value == [foo |-> "1"]
NoValue == [foo |-> ""]

LoopInitVars ==
    /\ lphase = "connecting"
    /\ ops = [i \in Ops |-> [pc |-> "queued", op_error |-> NoErr,
                             op_timeout |-> NoTimeout]]
    /\ bucket = << >>
    /\ nokay = 0
    /\ nfailed = 0
    /\ nbyerror = << >>
    /\ lnow = 0
    /\ llast = [kind |-> "main", op |-> 0, err |-> NoErr, value |-> NoValue,
                fault |-> FALSE, out |-> "none"]

(***************************************************************************)
(* The state of the "configure" tool (README.md:104-841).                  *)
(***************************************************************************)
VARIABLES
    cfgctx,       \* configure's context: c_dryrun, c_use_remote, the targets
    cfgpc,        \* 0: main has not read CONFIG_FILE; k: funcs[k] is running
    cfgerr,       \* the message configure failed with, "" while it has not
    fsys,         \* the paths that exist in the workspace
    syscalls,     \* the calls made that change files or run a command
    stdout        \* what was printed on the standard output

cfgVars == << cfgctx, cfgpc, cfgerr, fsys, syscalls, stdout >>

(* The paths configure derives (README.md:329-340). *)
c_run_client == "run/client"
c_run_server == "run/server"
c_client_installed == "run/client/node_modules/moray"
c_server_installed == "run/server/node_modules/moray-server"
c_server_config == "run/server/config-generated.json"
c_env_path == "run/env.sh"

(* cfgctx before configure() has filled it in. *)
NoCfgctx ==
    [c_dryrun |-> FALSE, c_use_remote |-> FALSE, c_client_target |-> "null",
     c_server_target |-> "null", c_server_base_config |-> << >>,
     c_env |-> << >>]

CfgInitVars ==
    /\ cfgctx = NoCfgctx
    /\ cfgpc = 0
    /\ cfgerr = ""
    /\ syscalls = << >>
    /\ stdout = << >>

(* A workspace in which nothing is installed yet (after "make clean"). *)
CleanWorkspace == {}

(***************************************************************************)
(* The state of one server started with helper.createServer                *)
(* (stress-client.js:731-831) in a process that runs a local server.       *)
(***************************************************************************)
VARIABLES
    hproc,        \* the process that called createServer: "alive", "crashed"
    server,       \* ts_child: "none", "running", "exited"; ts_cleanup_cb: 0 for null
    seen,         \* the output of the child received so far
    ready,        \* whether the readiness callback has been called
    startTimer,   \* whether the 10 second timer is set
    kills,        \* number of SIGKILLs sent to the child's process group
    hlast         \* the handler that ran last and the callbacks called so far

helperVars == << hproc, server, seen, ready, startTimer, kills, hlast >>

HelperInitVars ==
    /\ hproc = "alive"
    /\ server = [ts_child |-> "none", ts_cleanup_cb |-> 0]
    /\ seen = << >>
    /\ ready = FALSE
    /\ startTimer = FALSE
    /\ kills = 0
    /\ hlast = [op |-> "none", ncb |-> 0, ncleanup |-> 0, out |-> "none",
                code |-> -1, signal |-> "null"]

(* All the variables: those of the runner, of the commands, of the loop    *)
(* test, of configure, of the server helper.                               *)
otherVars == << connVars, failVars, okayVars, loopVars, cfgVars, helperVars >>

vars == << mainVars, otherVars >>

(* The program's state as one value, so that a handler can call another. *)
St ==
    [ mainpc |-> mainpc, proc |-> proc, scServer |-> scServer, ctx |-> ctx,
      setupState |-> setupState, ndone |-> ndone, nerrors |-> nerrors,
      outstanding |-> outstanding, immediates |-> immediates,
      timers |-> timers, ntimers |-> ntimers, output |-> output ]

Commit(s) ==
    /\ mainpc' = s.mainpc
    /\ proc' = s.proc
    /\ scServer' = s.scServer
    /\ ctx' = s.ctx
    /\ setupState' = s.setupState
    /\ ndone' = s.ndone
    /\ nerrors' = s.nerrors
    /\ outstanding' = s.outstanding
    /\ immediates' = s.immediates
    /\ timers' = s.timers
    /\ ntimers' = s.ntimers
    /\ output' = s.output
    /\ UNCHANGED otherVars

Turn(op, cmd, res) == [op |-> op, cmd |-> cmd, res |-> res]
Ok(v) == [status |-> "ok", value |-> v]
Throw(e) == [status |-> e, value |-> << >>]
Nothing == Ok(<< >>)

(* setTimeout guarantees that the callback does not run before the delay. *)
Expired(t) == (now - t.set) * TickMs >= t.delay

InitButStore ==
    /\ mainpc = "kangStarting"
    /\ proc = "alive"
    /\ scServer = FALSE
    /\ ctx = << >>
    /\ setupState = [c \in Cmds |-> "notStarted"]
    /\ ndone = 0
    /\ nerrors = 0
    /\ outstanding = [c \in Cmds |-> {}]
    /\ immediates = [c \in Cmds |-> 0]
    /\ timers = {}
    /\ ntimers = [c \in Owners |-> 0]
    /\ now = 0
    /\ output = << [level |-> "stderr", msg |-> "setting up", name |-> ""] >>
    /\ lastTurn = Turn("main", -1, Nothing)
    /\ ConnInit
    /\ FailInit
    /\ OkayInitVars
    /\ LoopInitVars
    /\ CfgInitVars
    /\ HelperInitVars

(* The state when main has just started, with no test bucket on the server. *)
Init ==
    /\ InitButStore
    /\ store = CleanStore
    /\ ignoreExplicitErrors = FALSE
    /\ fsys = CleanWorkspace

(***************************************************************************)
(* Helpers: the runtime's timers and the log.                              *)
(***************************************************************************)
Say(s, level, msg, name) ==
    [s EXCEPT !.output = Append(@, [level |-> level, msg |-> msg, name |-> name])]

(* A timer handle is a fresh object; the model names it by its owner and   *)
(* by how many timers that owner has set, which no other timer shares.     *)
Handle(s, c) == s.ntimers[c] + 1

(* setTimeout(func, delay, arg) for owner c returns Handle(s, c). *)
setTimeout(s, func, delay, c) ==
    [s EXCEPT !.timers = @ \cup {[id |-> Handle(s, c), func |-> func, cmd |-> c,
                                  set |-> now, delay |-> delay]},
              !.ntimers[c] = @ + 1]

(* A clearTimeout that leaves the timer set. *)
clearTimeoutKeepsTimer(s, c, h) == s

(* clearTimeout(h) for a handle h of owner c; clearing null, or a timer    *)
(* that is no longer set, does nothing.                                    *)
clearTimeout(s, c, h) ==
    [s EXCEPT !.timers = {t \in @ : ~(t.cmd = c /\ t.id = h)}]

(* scCommandLoop resubmitting itself at once, without waiting for exec. *)
scCommandLoopResubmits(s, c) ==
    LET n == s.ctx[c].nstarted + 1
        s1 == [s EXCEPT !.ctx[c].nstarted = n,
                        !.ctx[c].lastStarted = now,
                        !.ctx[c].timer = Handle(s, c)]
        s2 == setTimeout(s1, "scWatchdogFire", scWatchdogLimit, c)
    IN  [s2 EXCEPT !.outstanding[c] = @ \cup {n}, !.immediates[c] = @ + 1]

(* scCommandLoop without "nstarted++". *)
scCommandLoopNoCount(s, c) ==
    LET n == s.ctx[c].nstarted + 1
        s1 == [s EXCEPT !.ctx[c].lastStarted = now,
                        !.ctx[c].timer = Handle(s, c)]
        s2 == setTimeout(s1, "scWatchdogFire", scWatchdogLimit, c)
    IN  [s2 EXCEPT !.outstanding[c] = @ \cup {n}]

(* scCommandLoop that does not keep the handle setTimeout returned. *)
scCommandLoopDropsHandle(s, c) ==
    LET n == s.ctx[c].nstarted + 1
        s1 == [s EXCEPT !.ctx[c].nstarted = n,
                        !.ctx[c].lastStarted = now]
        s2 == setTimeout(s1, "scWatchdogFire", scWatchdogLimit, c)
    IN  [s2 EXCEPT !.outstanding[c] = @ \cup {n}]

(* scCommandLoop counting its start in the context of every command, as if *)
(* the commands shared one context.                                        *)
scCommandLoopSharedContext(s, c) ==
    LET n == s.ctx[c].nstarted + 1
        s1 == [s EXCEPT !.ctx = [d \in DOMAIN @ |->
                                   [@[d] EXCEPT !.nstarted = @ + 1,
                                                !.lastStarted = now]],
                        !.ctx[c].timer = Handle(s, c)]
        s2 == setTimeout(s1, "scWatchdogFire", scWatchdogLimit, c)
    IN  [s2 EXCEPT !.outstanding[c] = @ \cup {n}]

(***************************************************************************)
(* scCommandLoop (stress-client.js:156-176), up to the call of exec: the   *)
(* exec of all five commands calls back from a later turn.                 *)
(***************************************************************************)
scCommandLoop(s, c) ==
    LET n == s.ctx[c].nstarted + 1
        s1 == [s EXCEPT !.ctx[c].nstarted = n,
                        !.ctx[c].lastStarted = now,
                        !.ctx[c].timer = Handle(s, c)]
        s2 == setTimeout(s1, "scWatchdogFire", scWatchdogLimit, c)
    IN  [s2 EXCEPT !.outstanding[c] = @ \cup {n}]

(* The exec callback without clearTimeout. *)
execCallbackNoClear(s, c, n, err) ==
    LET s2 == [s EXCEPT !.outstanding[c] = @ \ {n}]
    IN  IF err
        THEN [Say(s2, "fatal", "exec command", scCommands[c].name) EXCEPT !.proc = "crashed"]
        ELSE [s2 EXCEPT !.immediates[c] = @ + 1]

(* The exec callback logging the error and going on with the loop. *)
execCallbackSuppresses(s, c, n, err) ==
    LET s1 == clearTimeout(s, c, s.ctx[c].timer)
        s2 == [s1 EXCEPT !.outstanding[c] = @ \ {n}, !.immediates[c] = @ + 1]
    IN  IF err THEN Say(s2, "fatal", "exec command", scCommands[c].name) ELSE s2

(* The exec callback calling scCommandLoop itself (direct recursion). *)
execCallbackRecurses(s, c, n, err) ==
    LET s1 == clearTimeout(s, c, s.ctx[c].timer)
        s2 == [s1 EXCEPT !.outstanding[c] = @ \ {n}]
    IN  IF err
        THEN [Say(s2, "fatal", "exec command", scCommands[c].name) EXCEPT !.proc = "crashed"]
        ELSE IF s2.ctx[c].nstarted < MaxIter THEN scCommandLoop(s2, c) ELSE s2

(* An exec callback that does not schedule the next iteration. *)
execCallbackForgetsNext(s, c, n, err) ==
    LET s1 == clearTimeout(s, c, s.ctx[c].timer)
        s2 == [s1 EXCEPT !.outstanding[c] = @ \ {n}]
    IN  IF err
        THEN [Say(s2, "fatal", "exec command", scCommands[c].name)
                EXCEPT !.proc = "crashed"]
        ELSE s2

(* The callback scCommandLoop hands to exec (stress-client.js:165-175). *)
execCallback(s, c, n, err) ==
    LET s1 == clearTimeout(s, c, s.ctx[c].timer)
        s2 == [s1 EXCEPT !.outstanding[c] = @ \ {n}]
    IN  IF err
        THEN [Say(s2, "fatal", "exec command", scCommands[c].name) EXCEPT !.proc = "crashed"]
        ELSE [s2 EXCEPT !.immediates[c] = @ + 1]

(* scWatchdogFire that reports the command and returns, without abort. *)
scWatchdogFireReportsOnly(s, c) ==
    Say(s, "stderr", "watchdog timer expired for command", scCommands[c].name)

(* scWatchdogFire (stress-client.js:178-188). *)
scWatchdogFire(s, c) ==
    [Say(Say(s, "stderr", "watchdog timer expired for command", scCommands[c].name),
         "stderr", "aborting (to dump core)", "")
     EXCEPT !.proc = "aborted"]

(***************************************************************************)
(* main's callback of vasync.forEachParallel (stress-client.js:93-100).    *)
(* cmdutil.fail exits the process, so nothing after it runs.               *)
(***************************************************************************)
mainSetupDone(s, err) ==
    IF err
    THEN [Say(s, "stderr", "setup", "") EXCEPT !.proc = "failed"]
    ELSE Say(s, "stderr", "set up all commands", "")

(* The callback vasync.forEachParallel hands to func: the final callback   *)
(* runs when every input has called back, with an error if any of them had *)
(* one (stress-client.js:90-93).                                           *)
forEachParallelDone(s, err) ==
    LET s1 == [s EXCEPT !.ndone = @ + 1,
                        !.nerrors = IF err THEN @ + 1 ELSE @]
    IN  IF s1.ndone = NumCommands
        THEN mainSetupDone(s1, s1.nerrors > 0)
        ELSE s1

(* A setup callback that starts the first iteration without recording      *)
(* setupDone.                                                              *)
setupCallbackLoopsBeforeDone(s, c, err) ==
    IF err
    THEN forEachParallelDone([s EXCEPT !.setupState[c] = "failed"], TRUE)
    ELSE LET s1 == [s EXCEPT !.setupState[c] = "done"]
         IN  forEachParallelDone(scCommandLoop(s1, c), FALSE)

(* A setup callback that records setupDone and leaves the first iteration  *)
(* to a later turn.                                                        *)
setupCallbackDefersLoop(s, c, err) ==
    IF err
    THEN forEachParallelDone([s EXCEPT !.setupState[c] = "failed"], TRUE)
    ELSE forEachParallelDone([s EXCEPT !.setupState[c] = "done",
                                       !.ctx[c].setupDone = now,
                                       !.immediates[c] = @ + 1], FALSE)

(* The callback scCommandStart hands to setup (stress-client.js:144-153). *)
setupCallback(s, c, err) ==
    IF err
    THEN forEachParallelDone([s EXCEPT !.setupState[c] = "failed"], TRUE)
    ELSE LET s1 == [s EXCEPT !.setupState[c] = "done",
                             !.ctx[c].setupDone = now]
         IN  forEachParallelDone(scCommandLoop(s1, c), FALSE)

(* scCommandStart that arms the watchdog for the setup as well. *)
scCommandStartArmsWatchdog(s, c, sync) ==
    LET s0 == [s EXCEPT !.ctx = (c :> [nstarted |-> 0,
                                       lastStarted |-> NullDate,
                                       setupStarted |-> now,
                                       setupDone |-> NullDate,
                                       timer |-> Handle(s, c)]) @@ @,
                        !.setupState[c] = "pending"]
        s1 == setTimeout(s0, "scWatchdogFire", scWatchdogLimit, c)
    IN  IF sync THEN setupCallback(s1, c, FALSE) ELSE s1

(* scCommandStart (stress-client.js:132-154).  A setup either calls back   *)
(* before it returns (cmdRpcNeverConnectedSetup, cmdRpcReconnectSetup) or  *)
(* from a later turn (the setups that wait for 'connect').                 *)
scCommandStart(s, c, sync) ==
    LET s1 == [s EXCEPT !.ctx = (c :> [nstarted |-> 0,
                                       lastStarted |-> NullDate,
                                       setupStarted |-> now,
                                       setupDone |-> NullDate,
                                       timer |-> NullTimer]) @@ @,
                        !.setupState[c] = "pending"]
    IN  IF sync THEN setupCallback(s1, c, FALSE) ELSE s1

(* A forEachParallel that calls func for the first input only. *)
forEachParallelFirstOnly(s, c, syncs) ==
    IF c = NumCommands THEN s ELSE scCommandStart(s, c, c \in syncs)

(* vasync.forEachParallel calls func for every input, in order, before it  *)
(* returns (stress-client.js:90-93).                                       *)
RECURSIVE forEachParallel(_, _, _)
forEachParallel(s, c, syncs) ==
    IF c = NumCommands
    THEN s
    ELSE forEachParallel(scCommandStart(s, c, c \in syncs), c + 1, syncs)

(***************************************************************************)
(* The Kang callbacks (stress-client.js:105-130).                          *)
(***************************************************************************)
Return(s, res) == [s |-> s, ret |-> res]

knListTypes(s) == Return(s, Ok(<< "cmd" >>))

(* A listing of the commands that have a context only. *)
knListObjectsStartedOnly(s, type) ==
    IF type # "cmd"
    THEN Return(s, Throw("AssertionError"))
    ELSE Return(s, Ok([i \in 1 .. Cardinality(DOMAIN s.ctx) |-> i - 1]))

knListObjects(s, type) ==
    IF type # "cmd"
    THEN Return(s, Throw("AssertionError"))
    ELSE Return(s, Ok([i \in 1 .. NumCommands |-> i - 1]))

(* knGetObject making up the context that is not there yet. *)
knGetObjectCreatesCtx(s, type, which) ==
    IF type # "cmd"
    THEN Return(s, Throw("AssertionError"))
    ELSE IF which \notin Cmds
    THEN Return(s, Throw("TypeError"))
    ELSE LET s1 == IF which \in DOMAIN s.ctx
                   THEN s
                   ELSE [s EXCEPT !.ctx = (which :> [nstarted |-> 0,
                                                     lastStarted |-> NullDate,
                                                     setupStarted |-> NullDate,
                                                     setupDone |-> NullDate,
                                                     timer |-> NullTimer]) @@ @]
         IN  Return(s1, Ok([label |-> scCommands[which].name,
                            funcname |-> scCommands[which].funcname,
                            nstarted |-> s1.ctx[which].nstarted,
                            lastStarted |-> s1.ctx[which].lastStarted]))

(* cmdspec is undefined for an index outside the registry, and cmdspec.ctx *)
(* is undefined until scCommandStart has run: reading a property of        *)
(* undefined throws a TypeError.                                           *)
knGetObject(s, type, which) ==
    IF type # "cmd"
    THEN Return(s, Throw("AssertionError"))
    ELSE IF which \notin Cmds \/ which \notin DOMAIN s.ctx
    THEN Return(s, Throw("TypeError"))
    ELSE Return(s, Ok([label |-> scCommands[which].name,
                       funcname |-> scCommands[which].funcname,
                       nstarted |-> s.ctx[which].nstarted,
                       lastStarted |-> s.ctx[which].lastStarted]))

(***************************************************************************)
(* The turns of the event loop.                                            *)
(***************************************************************************)
Alive == proc = "alive"

(* kang.knStartServer's callback (stress-client.js:80-84) calls            *)
(* helper.createServer, which throws unless the environment names the      *)
(* server to run, and otherwise spawns it and arms a 10 second timer       *)
(* (stress-client.js:745-781).  The model is of a run against a locally    *)
(* started server: with a remote one the second command's setup throws     *)
(* (stress-client.js:736-738).                                             *)
ServerStartLimit == 10000

KangReady ==
    /\ Alive
    /\ mainpc = "kangStarting"
    /\ \E envOk \in BOOLEAN :
          IF envOk
          THEN Commit(setTimeout([St EXCEPT !.mainpc = "serverCreating"],
                                 "serverStart", ServerStartLimit, -1))
          ELSE Commit([St EXCEPT !.mainpc = "serverCreating", !.proc = "crashed"])
    /\ lastTurn' = Turn("KangReady", -1, Nothing)
    /\ UNCHANGED now

(* helper.createServer's callback (stress-client.js:84-101): the server is *)
(* ready, its timer is cleared, and every command is started.              *)
ServerReady ==
    /\ Alive
    /\ mainpc = "serverCreating"
    /\ \E t \in timers : t.func = "serverStart"
    /\ \E syncs \in SUBSET Cmds :
          LET t == CHOOSE t \in timers : t.func = "serverStart"
              s1 == [clearTimeout(St, -1, t.id) EXCEPT !.scServer = TRUE,
                                                    !.mainpc = "running"]
          IN  Commit(forEachParallel(s1, 0, syncs))
    /\ lastTurn' = Turn("ServerReady", -1, Nothing)
    /\ UNCHANGED now

(* A setup that did not call back before it returned calls back. *)
SetupCallback(c, err) ==
    /\ Alive
    /\ setupState[c] = "pending"
    /\ Commit(setupCallback(St, c, err))
    /\ lastTurn' = Turn("SetupCallback", c, IF err THEN Throw("err") ELSE Nothing)
    /\ UNCHANGED now

(* The exec of an outstanding iteration calls back. *)
ExecCallback(c, err) ==
    /\ Alive
    /\ \E n \in outstanding[c] : Commit(execCallback(St, c, n, err))
    /\ lastTurn' = Turn("ExecCallback", c, IF err THEN Throw("err") ELSE Nothing)
    /\ UNCHANGED now

(* setImmediate(scCommandLoop, cmdspec) runs. *)
ImmediateRun(c) ==
    /\ Alive
    /\ immediates[c] > 0
    /\ ctx[c].nstarted < MaxIter
    /\ Commit(scCommandLoop([St EXCEPT !.immediates[c] = @ - 1], c))
    /\ lastTurn' = Turn("scCommandLoop", c, Nothing)
    /\ UNCHANGED now

(* A timer that is still set runs its callback, not before its delay. *)
TimerFire(t) ==
    /\ Alive
    /\ t \in timers
    /\ Expired(t)
    /\ LET s1 == [St EXCEPT !.timers = @ \ {t}]
       IN  IF t.func = "scWatchdogFire"
           THEN Commit(scWatchdogFire(s1, t.cmd))
           ELSE Commit([s1 EXCEPT !.proc = "crashed"])
    /\ lastTurn' = Turn(t.func, t.cmd, Nothing)
    /\ UNCHANGED now

Tick ==
    /\ Alive
    /\ now < MaxTime
    /\ now' = now + 1
    /\ lastTurn' = Turn("Tick", -1, Nothing)
    /\ UNCHANGED << mainpc, proc, scServer, ctx, setupState, ndone, nerrors,
                    outstanding, immediates, timers, ntimers, output >>
    /\ UNCHANGED otherVars

(* A Kang query is served once the Kang server listens: Kang calls the    *)
(* callback and answers with what it returned, or with its exception.      *)
KnQuery(op, arg, r) ==
    /\ Alive
    /\ mainpc # "kangStarting"
    /\ Commit(r.s)
    /\ lastTurn' = Turn(op, arg, r.ret)
    /\ UNCHANGED now

Types == {"cmd", "command"}

KnListTypes == KnQuery("knListTypes", -1, knListTypes(St))

KnListObjects ==
    \E type \in Types : KnQuery("knListObjects", -1, knListObjects(St, type))

KnGetObject ==
    \E type \in Types, which \in 0 .. NumCommands :
        KnQuery("knGetObject", which, knGetObject(St, type, which))

Next ==
    \/ KangReady
    \/ ServerReady
    \/ \E c \in Cmds, err \in BOOLEAN : SetupCallback(c, err)
    \/ \E c \in Cmds, err \in BOOLEAN : ExecCallback(c, err)
    \/ \E c \in Cmds : ImmediateRun(c)
    \/ \E t \in timers : TimerFire(t)
    \/ Tick
    \/ KnListTypes
    \/ KnListObjects
    \/ KnGetObject

Spec == Init /\ [][Next]_vars

(***************************************************************************)
(* A setup whose callback runs again.  The setups of the two sweeps        *)
(* register scCommandStart's callback with client.on('connect')            *)
(* (stress-client.js:403-406, 536-539), so it runs for every 'connect' the  *)
(* client emits.  The callback has no guard (stress-client.js:144-153): it *)
(* records setupDone and enters scCommandLoop again, and then calls the    *)
(* callback of vasync.forEachParallel, which asserts that an input calls   *)
(* back once and throws.                                                   *)
(***************************************************************************)
setupCallbackAgain(s, c) ==
    LET s1 == [s EXCEPT !.ctx[c].setupDone = now]
    IN  [scCommandLoop(s1, c) EXCEPT !.proc = "crashed"]

SetupCallbackAgain(c) ==
    /\ Alive
    /\ setupState[c] = "done"
    /\ Commit(setupCallbackAgain(St, c))
    /\ lastTurn' = Turn("SetupCallback", c, Throw("AssertionError"))
    /\ UNCHANGED now

RepeatNext ==
    \/ Next
    \/ \E c \in Cmds : SetupCallbackAgain(c)

RepeatSpec == Init /\ [][RepeatNext]_vars

(***************************************************************************)
(* Normal soak operation: every setup and every exec calls back without an *)
(* error, as the setups of the registry do (stress-client.js:240, 269,     *)
(* 300, 405, 538), and every exec calls back before scWatchdogLimit has    *)
(* passed since its iteration started.                                     *)
(***************************************************************************)
(* The clock advances only as far as no armed watchdog reaches its limit. *)
LiveTick ==
    /\ \A t \in timers :
          t.func = "scWatchdogFire" => (now + 1 - t.set) * TickMs < t.delay
    /\ Tick

LiveNext ==
    \/ KangReady
    \/ ServerReady
    \/ \E c \in Cmds : SetupCallback(c, FALSE)
    \/ \E c \in Cmds : ExecCallback(c, FALSE)
    \/ \E c \in Cmds : ImmediateRun(c)
    \/ \E t \in timers : TimerFire(t)
    \/ LiveTick

(* Every exec that was started calls back, and the event loop runs every   *)
(* callback that setImmediate has scheduled.                               *)
LiveSpec ==
    /\ Init
    /\ [][LiveNext]_vars
    /\ \A c \in Cmds : WF_vars(ExecCallback(c, FALSE))
    /\ \A c \in Cmds : WF_vars(ImmediateRun(c))

(***************************************************************************)
(* The commands' clients and servers, and the exec functions of the three  *)
(* commands that have a connection of their own.                           *)
(***************************************************************************)

(* VError.findCauseByName(err, name) !== null, for err an Error. *)
findCauseByName(err, name) == \E i \in 1 .. Len(err) : err[i] = name

(* An exec that lets a listBuckets which succeeded pass. *)
cmdRpcNeverConnectedAcceptsSuccess(err) ==
    IF err = NoErr THEN "pass"
    ELSE IF findCauseByName(err, "NoBackendsError") THEN "pass" ELSE "fail"

(* The callback of listBuckets in cmdRpcNeverConnected                     *)
(* (stress-client.js:243-249): what the iteration does for the error it    *)
(* got.  VError.findCauseByName asserts that its argument is an Error, so  *)
(* with no error the callback throws.                                      *)
cmdRpcNeverConnected(err) ==
    IF err = NoErr THEN "throw"
    ELSE IF findCauseByName(err, "NoBackendsError") THEN "pass" ELSE "fail"

(* An exec of the disconnected command that passes the error on, like the  *)
(* other commands do.                                                      *)
cmdRpcDisconnectedPassesErrorOn(err) == IF err = NoErr THEN "pass" ELSE "fail"

(* The callback of listBuckets in cmdRpcDisconnected                       *)
(* (stress-client.js:274-280).                                             *)
cmdRpcDisconnected(err) == IF err = NoErr THEN "fail" ELSE "pass"

(* A final ping that accepts an error of any kind. *)
cmdRpcReconnectClientFailAnyError(err) ==
    IF err = NoErr THEN "fail" ELSE "pass"

(* The callback of the final ping (stress-client.js:374-391). *)
cmdRpcReconnectClientFail(err) ==
    IF err # NoErr
    THEN IF \/ findCauseByName(err, "NoBackendsError")
            \/ findCauseByName(err, "FastTransportError")
            \/ findCauseByName(err, "FastProtocolError")
         THEN "pass"
         ELSE "fail"
    ELSE "fail"

(* ctx.maxloops (stress-client.js:334); the code polls up to 100 times. *)
maxloops == 2

(* A poll loop that allows one more ping than maxloops + 1. *)
cmdRpcReconnectClientLoopOneMore(err, n) ==
    IF err # NoErr /\ n <= maxloops + 1 THEN "retry"
    ELSE IF err # NoErr THEN "fail" ELSE "next"

(* A poll loop that goes on to the shutdown when it runs out of pings. *)
cmdRpcReconnectClientLoopGivesUp(err, n) ==
    IF err # NoErr /\ n <= maxloops THEN "retry" ELSE "next"

(* The callback of a ping of the poll loop (stress-client.js:349-364),     *)
(* for nloops already incremented.                                         *)
cmdRpcReconnectClientLoop(err, n) ==
    IF err # NoErr /\ n <= maxloops THEN "retry"
    ELSE IF err # NoErr THEN "fail" ELSE "next"

(* A reconnect client that points at the port of the disconnected command. *)
cmdRpcReconnectSetupPort2021 == [host |-> "127.0.0.1", port |-> 2021]

(* The parameters each setup creates its client with                      *)
(* (stress-client.js:234-238, 263-267, 290-299, 702-725).                  *)
cmdRpcNeverConnectedSetup == [host |-> "bogus_hostname", port |-> 2020]
cmdRpcDisconnectedSetup == [host |-> "127.0.0.1", port |-> 2021]
cmdRpcReconnectSetup == [host |-> "127.0.0.1", port |-> 2022]
helperCreateClient == [host |-> "127.0.0.1", port |-> 2020]

(* moray.createClient as called by the setup of command c. *)
createClient(c, params) ==
    /\ clients' = Append(clients, params)
    /\ ctxClient' = [ctxClient EXCEPT ![c] = Len(clients) + 1]

(* helper.createServer: a server process of its own for owner (-1 is       *)
(* main), listening on port.                                               *)
createServer(owner, port) == servers \cup {[owner |-> owner, port |-> port]}

XAlive == xlast.out \notin {"fail", "throw"}

(* The callback of main's helper.createServer (stress-client.js:86-101):   *)
(* the shared server is up, and vasync.forEachParallel calls scCommandStart *)
(* for the five commands in order.  The setups of commands 0 and 2 call     *)
(* back at once, so their first iterations start in this turn.              *)
XMain ==
    /\ \A c \in AllCmds : xpc[c] = "init"
    /\ clients' = << cmdRpcNeverConnectedSetup, cmdRpcReconnectSetup,
                     helperCreateClient, helperCreateClient >>
    /\ ctxClient' = [c \in AllCmds |-> CASE c = 0 -> 1
                                         [] c = 1 -> 0
                                         [] c = 2 -> 2
                                         [] c = 3 -> 3
                                         [] c = 4 -> 4]
    /\ servers' = createServer(2, cmdRpcReconnectSetup.port)
                    \cup createServer(1, cmdRpcDisconnectedSetup.port)
                    \cup createServer(-1, helperCreateClient.port)
    /\ xpc' = [c \in AllCmds |-> CASE c = 0 -> "exec"
                                   [] c = 1 -> "serverStarting"
                                   [] c = 2 -> "setupServer"
                                   [] c = 3 -> "connecting"
                                   [] c = 4 -> "connecting"]
    /\ nloops' = 0
    /\ xlast' = [op |-> "main", cmd |-> -1, err |-> NoErr, out |-> "next"]
    /\ UNCHANGED << mainVars, helperVars, cfgVars, failVars, okayVars, loopVars >>

(* A server a command started reports ready: the disconnected command      *)
(* creates its client (stress-client.js:261-271), the reconnect command    *)
(* sends its first ping (stress-client.js:341-349).                        *)
XServerUp(c) ==
    /\ XAlive
    /\ \/ /\ c = 1 /\ xpc[c] = "serverStarting"
          /\ createClient(c, cmdRpcDisconnectedSetup)
          /\ xpc' = [xpc EXCEPT ![c] = "connecting"]
       \/ /\ c = 2 /\ xpc[c] = "setupServer"
          /\ xpc' = [xpc EXCEPT ![c] = "pinging"]
          /\ UNCHANGED << clients, ctxClient >>
    /\ xlast' = [op |-> "serverReady", cmd |-> c, err |-> NoErr, out |-> "next"]
    /\ UNCHANGED << servers, nloops >>
    /\ UNCHANGED << mainVars, helperVars, cfgVars, failVars, okayVars, loopVars >>

(* A client emits 'connect': the disconnected command shuts its server     *)
(* down (stress-client.js:268-270), the sweeps' setups call back and their *)
(* first iterations start (stress-client.js:403-406, 536-539).             *)
XConnect(c) ==
    /\ XAlive
    /\ xpc[c] = "connecting"
    /\ xpc' = [xpc EXCEPT ![c] = IF c = 1 THEN "cleaning" ELSE "sweeping"]
    /\ xlast' = [op |-> "connect", cmd |-> c, err |-> NoErr, out |-> "next"]
    /\ UNCHANGED << clients, ctxClient, servers, nloops >>
    /\ UNCHANGED << mainVars, helperVars, cfgVars, failVars, okayVars, loopVars >>

(* The server of a command has exited after cleanupServer killed it: the   *)
(* setup of the disconnected command calls back and its first iteration    *)
(* starts; the reconnect command sends its final ping                      *)
(* (stress-client.js:367-374).                                             *)
XServerExit(c) ==
    /\ XAlive
    /\ \/ c = 1 /\ xpc[c] = "cleaning"
       \/ c = 2 /\ xpc[c] = "shutdown"
    /\ servers' = {s \in servers : s.owner # c}
    /\ xpc' = [xpc EXCEPT ![c] = IF c = 1 THEN "exec" ELSE "finalPing"]
    /\ xlast' = [op |-> "serverExit", cmd |-> c, err |-> NoErr, out |-> "next"]
    /\ UNCHANGED << clients, ctxClient, nloops >>
    /\ UNCHANGED << mainVars, helperVars, cfgVars, failVars, okayVars, loopVars >>

(* What the end of an iteration does to its command: after a pass           *)
(* setImmediate schedules the next one, anything else ends the process.     *)
Finish(op, c, err, out) ==
    /\ xpc' = [xpc EXCEPT ![c] = IF out = "pass" THEN "idle" ELSE "dead"]
    /\ xlast' = [op |-> op, cmd |-> c, err |-> err, out |-> out]

(* listBuckets of command 0 or 1 calls back. *)
XListBuckets(c, err) ==
    /\ XAlive
    /\ c \in {0, 1}
    /\ xpc[c] = "exec"
    /\ Finish("listBuckets", c, err, IF c = 0 THEN cmdRpcNeverConnected(err)
                                              ELSE cmdRpcDisconnected(err))
    /\ UNCHANGED << clients, ctxClient, servers, nloops >>
    /\ UNCHANGED << mainVars, helperVars, cfgVars, failVars, okayVars, loopVars >>

(* A ping of the reconnect command's poll loop calls back. *)
XPing(err) ==
    LET n == nloops + 1
        out == cmdRpcReconnectClientLoop(err, n)
    IN  /\ XAlive
        /\ xpc[2] = "pinging"
        /\ nloops' = n
        /\ IF out = "fail"
           THEN Finish("ping", 2, err, "fail")
           ELSE /\ xpc' = [xpc EXCEPT ![2] = IF out = "retry" THEN "pollWait"
                                                             ELSE "shutdown"]
                /\ xlast' = [op |-> "ping", cmd |-> 2, err |-> err, out |-> out]
        /\ UNCHANGED << clients, ctxClient, servers >>
        /\ UNCHANGED << mainVars, helperVars, cfgVars, failVars, okayVars, loopVars >>

(* The 100 ms timer of the poll loop fires and the next ping is sent. *)
XPollTimer ==
    /\ XAlive
    /\ xpc[2] = "pollWait"
    /\ xpc' = [xpc EXCEPT ![2] = "pinging"]
    /\ xlast' = [op |-> "pollTimer", cmd |-> 2, err |-> NoErr, out |-> "next"]
    /\ UNCHANGED << clients, ctxClient, servers, nloops >>
    /\ UNCHANGED << mainVars, helperVars, cfgVars, failVars, okayVars, loopVars >>

(* The final ping of the reconnect command calls back. *)
XFinalPing(err) ==
    /\ XAlive
    /\ xpc[2] = "finalPing"
    /\ Finish("finalPing", 2, err, cmdRpcReconnectClientFail(err))
    /\ UNCHANGED << clients, ctxClient, servers, nloops >>
    /\ UNCHANGED << mainVars, helperVars, cfgVars, failVars, okayVars, loopVars >>

(* An iteration start of the reconnect command that creates a client of    *)
(* its own for every cycle, as its server is created.                      *)
XLoopCreatesClient(c) ==
    /\ XAlive
    /\ xpc[c] = "idle"
    /\ xpc' = [xpc EXCEPT ![c] = IF c = 2 THEN "setupServer" ELSE "exec"]
    /\ servers' = IF c = 2 THEN createServer(2, cmdRpcReconnectSetup.port)
                           ELSE servers
    /\ nloops' = IF c = 2 THEN 0 ELSE nloops
    /\ xlast' = [op |-> "scCommandLoop", cmd |-> c, err |-> NoErr, out |-> "next"]
    /\ IF c = 2 THEN createClient(c, cmdRpcReconnectSetup)
                ELSE UNCHANGED << clients, ctxClient >>
    /\ UNCHANGED << mainVars, helperVars, cfgVars, failVars, okayVars, loopVars >>

(* setImmediate runs scCommandLoop: the next iteration of c starts; the    *)
(* reconnect command starts a server (stress-client.js:332-340).           *)
XLoop(c) ==
    /\ XAlive
    /\ xpc[c] = "idle"
    /\ xpc' = [xpc EXCEPT ![c] = IF c = 2 THEN "setupServer" ELSE "exec"]
    /\ servers' = IF c = 2 THEN createServer(2, cmdRpcReconnectSetup.port)
                           ELSE servers
    /\ nloops' = IF c = 2 THEN 0 ELSE nloops
    /\ xlast' = [op |-> "scCommandLoop", cmd |-> c, err |-> NoErr, out |-> "next"]
    /\ UNCHANGED << clients, ctxClient >>
    /\ UNCHANGED << mainVars, helperVars, cfgVars, failVars, okayVars, loopVars >>

ConnNext ==
    \/ XMain
    \/ \E c \in AllCmds : XServerUp(c)
    \/ \E c \in AllCmds : XConnect(c)
    \/ \E c \in AllCmds : XServerExit(c)
    \/ \E c \in AllCmds, err \in Results : XListBuckets(c, err)
    \/ \E err \in Results : XPing(err)
    \/ XPollTimer
    \/ \E err \in Results : XFinalPing(err)
    \/ \E c \in AllCmds : XLoop(c)

ConnSpec == Init /\ [][ConnNext]_vars

(***************************************************************************)
(* The failure sweep.                                                      *)
(***************************************************************************)

(* ignoreErrorTypes (stress-client.js:190-208). *)
ignoreErrorTypes(err, errtypes) ==
    IF err = NoErr
    THEN err
    ELSE IF \E t \in errtypes : findCauseByName(err, t) THEN NoErr ELSE err

(* /text$/.test(err.message) *)
EndsWith(message, text) ==
    Len(message) > 0 /\ message[Len(message)] = text

(* The steps of cmdRpcFail in order (stress-client.js:423-525): the call,  *)
(* how its outcome is received, and the error names it lets pass.          *)
cmdRpcFailFuncs ==
    << [call |-> "createBucket", via |-> "cbIgnoreErrorTypes",
        errtypes |-> {"InvalidBucketNameError"}],
       [call |-> "getBucket", via |-> "cbIgnoreErrorTypes",
        errtypes |-> {"BucketNotFoundError"}],
       [call |-> "updateBucket", via |-> "cbIgnoreErrorTypes",
        errtypes |-> {"BucketNotFoundError"}],
       [call |-> "deleteBucket", via |-> "cbIgnoreErrorTypes",
        errtypes |-> {"BucketNotFoundError"}],
       [call |-> "putObject", via |-> "cbIgnoreErrorTypes",
        errtypes |-> {"BucketNotFoundError"}],
       [call |-> "batch", via |-> "cbIgnoreErrorTypes",
        errtypes |-> {"BucketNotFoundError"}],
       [call |-> "getObject", via |-> "cbIgnoreErrorTypes",
        errtypes |-> {"BucketNotFoundError"}],
       [call |-> "delObject", via |-> "cbIgnoreErrorTypes",
        errtypes |-> {"BucketNotFoundError"}],
       [call |-> "findObjects", via |-> "events",
        errtypes |-> {"BucketNotFoundError"}],
       [call |-> "updateObjects", via |-> "cbIgnoreErrorTypes",
        errtypes |-> {"FieldUpdateError"}],
       [call |-> "reindexObjects", via |-> "cbIgnoreErrorTypes",
        errtypes |-> {"BucketNotFoundError"}],
       [call |-> "deleteMany", via |-> "cbIgnoreErrorTypes",
        errtypes |-> {"BucketNotFoundError"}],
       [call |-> "getTokens", via |-> "getTokens", errtypes |-> {}],
       [call |-> "sql", via |-> "sql", errtypes |-> {}] >>

(* What the callback of step k does with the result of its call: "next"    *)
(* calls subcallback without an error, "fail" calls it with one, "throw"   *)
(* throws from the callback.                                               *)
cmdRpcFailCallback(k, res) ==
    LET f == cmdRpcFailFuncs[k]
        ignored == ignoreErrorTypes(res.err, f.errtypes)
    IN  CASE f.via = "cbIgnoreErrorTypes" ->
               IF ignored = NoErr THEN "next" ELSE "fail"
          [] f.via = "events" ->
               IF res.err = NoErr THEN "throw"
               ELSE IF ignored = NoErr THEN "next" ELSE "fail"
          [] f.via = "getTokens" ->
               IF res.err = NoErr THEN "throw"
               ELSE IF EndsWith(res.message, "Operation not supported")
                    THEN "next" ELSE "throw"
          [] f.via = "sql" ->
               IF res.err = NoErr THEN "throw"
               ELSE IF EndsWith(res.message,
                                "relation \"bogus\" does not exist")
                    THEN "next" ELSE "throw"

(* setImmediate runs scCommandLoop: cmdRpcFail starts its pipeline, which  *)
(* issues the first call.                                                  *)
FLoop ==
    /\ fpc = 0
    /\ fpc' = 1
    /\ flast' = [step |-> 0, res |-> Success, out |-> "next"]
    /\ UNCHANGED << mainVars, helperVars, cfgVars, connVars, okayVars, loopVars >>

(* The call of step fpc completes with res.  After "next" the pipeline     *)
(* issues the next call, or, after the last step, calls the exec callback  *)
(* without an error; a "fail" reaches the exec callback, which throws.     *)
FCallback(res) ==
    LET out == cmdRpcFailCallback(fpc, res)
    IN  /\ fpc \in 1 .. Len(cmdRpcFailFuncs)
        /\ fpc' = IF out # "next" THEN -1
                  ELSE IF fpc = Len(cmdRpcFailFuncs) THEN 0 ELSE fpc + 1
        /\ flast' = [step |-> fpc, res |-> res, out |-> out]
        /\ UNCHANGED << mainVars, helperVars, cfgVars, connVars, okayVars, loopVars >>

FailNext ==
    \/ FLoop
    \/ \E res \in FailResults : FCallback(res)

FailSpec == Init /\ [][FailNext]_vars

(***************************************************************************)
(* The success sweep.                                                      *)
(***************************************************************************)

(* A batch that leaves key3 out. *)
cmdRpcOkayBatchWithoutKey3 ==
    [call |-> "batch", via |-> "callback", errtypes |-> {},
     puts |-> ("key2" :> 2) @@ ("key7" :> 7) @@ ("key9" :> 9)]

(* cmdRpcOkayBatch (stress-client.js:583-605). *)
cmdRpcOkayBatch ==
    [call |-> "batch", via |-> "callback", errtypes |-> {},
     puts |-> ("key2" :> 2) @@ ("key3" :> 3) @@ ("key7" :> 7) @@ ("key9" :> 9)]

(* A first step that deletes nothing. *)
cmdRpcOkayPingForCleanup ==
    [call |-> "ping", via |-> "cbIgnoreErrorTypes",
     errtypes |-> {"BucketNotFoundError"}]

(* cmdRpcOkayDeleteBucketCleanup (stress-client.js:554-558). *)
cmdRpcOkayDeleteBucketCleanup ==
    [call |-> "deleteBucket", via |-> "cbIgnoreErrorTypes",
     errtypes |-> {"BucketNotFoundError"}]

(* The steps of cmdRpcOkay in order (stress-client.js:554-655). *)
cmdRpcOkayFuncs ==
    << cmdRpcOkayDeleteBucketCleanup,
       [call |-> "createBucket", via |-> "callback", errtypes |-> {}],
       [call |-> "getBucket", via |-> "callback", errtypes |-> {}],
       [call |-> "listBuckets", via |-> "callback", errtypes |-> {}],
       [call |-> "updateBucket", via |-> "callback", errtypes |-> {}],
       [call |-> "putObject", via |-> "callback", errtypes |-> {},
        puts |-> ("key5" :> 5)],
       cmdRpcOkayBatch,
       [call |-> "getObject", via |-> "callback", errtypes |-> {},
        key |-> "key3"],
       [call |-> "delObject", via |-> "callback", errtypes |-> {},
        key |-> "key5"],
       [call |-> "findObjects", via |-> "events", errtypes |-> {},
        atLeast |-> 3],
       [call |-> "updateObjects", via |-> "callback", errtypes |-> {},
        atLeast |-> 9, field1 |-> 10],
       [call |-> "reindexObjects", via |-> "callback", errtypes |-> {}],
       [call |-> "deleteMany", via |-> "callback", errtypes |-> {},
        atLeast |-> 7],
       [call |-> "deleteBucket", via |-> "callback", errtypes |-> {}],
       [call |-> "ping", via |-> "callback", errtypes |-> {}],
       [call |-> "versionInternal", via |-> "callback", errtypes |-> {}],
       [call |-> "sql", via |-> "events", errtypes |-> {}] >>

(* The objects of st whose field1 is at least n: the filter field1>=n. *)
Matching(st, n) == {k \in DOMAIN st.objs : st.objs[k] >= n}

Reply(st, err) == [store |-> st, err |-> err]

(* The server's answer to the call f of the success sweep when the test    *)
(* bucket is in state st, and the state it leaves: a call on a bucket that *)
(* does not exist fails with BucketNotFoundError, createBucket of one that *)
(* exists with BucketConflictError, a call on a key that does not exist    *)
(* with ObjectNotFoundError, a filter on a field without index with        *)
(* NotIndexedError.                                                        *)
moray(st, f) ==
    LET missing == Reply(st, << "BucketNotFoundError" >>)
    IN  CASE f.call = "deleteBucket" ->
               IF st.exists THEN Reply(CleanStore, NoErr) ELSE missing
          [] f.call = "createBucket" ->
               IF st.exists
               THEN Reply(st, << "BucketConflictError" >>)
               ELSE Reply([CleanStore EXCEPT !.exists = TRUE], NoErr)
          [] f.call \in {"getBucket", "reindexObjects"} ->
               IF st.exists THEN Reply(st, NoErr) ELSE missing
          [] f.call = "updateBucket" ->
               IF st.exists
               THEN Reply([st EXCEPT !.indexed = TRUE], NoErr)
               ELSE missing
          [] f.call \in {"putObject", "batch"} ->
               IF st.exists
               THEN Reply([st EXCEPT !.objs = f.puts @@ @], NoErr)
               ELSE missing
          [] f.call = "getObject" ->
               IF ~ st.exists THEN missing
               ELSE IF f.key \in DOMAIN st.objs THEN Reply(st, NoErr)
               ELSE Reply(st, << "ObjectNotFoundError" >>)
          [] f.call = "delObject" ->
               IF ~ st.exists THEN missing
               ELSE IF f.key \in DOMAIN st.objs
               THEN Reply([st EXCEPT !.objs =
                              [k \in DOMAIN @ \ {f.key} |-> @[k]]], NoErr)
               ELSE Reply(st, << "ObjectNotFoundError" >>)
          [] f.call = "findObjects" ->
               IF ~ st.exists THEN missing
               ELSE IF st.indexed THEN Reply(st, NoErr)
               ELSE Reply(st, << "NotIndexedError" >>)
          [] f.call = "updateObjects" ->
               IF ~ st.exists THEN missing
               ELSE IF st.indexed
               THEN Reply([st EXCEPT !.objs =
                              [k \in DOMAIN @ |->
                                  IF k \in Matching(st, f.atLeast)
                                  THEN f.field1 ELSE @[k]]], NoErr)
               ELSE Reply(st, << "NotIndexedError" >>)
          [] f.call = "deleteMany" ->
               IF ~ st.exists THEN missing
               ELSE IF st.indexed
               THEN Reply([st EXCEPT !.objs =
                              [k \in DOMAIN @ \ Matching(st, f.atLeast)
                                  |-> @[k]]], NoErr)
               ELSE Reply(st, << "NotIndexedError" >>)
          [] f.call \in {"listBuckets", "ping", "versionInternal", "sql"} ->
               Reply(st, NoErr)

(* An error of the transport rather than of the server's store. *)
TransportError == << "FastRequestError", "FastTransportError" >>

(* What the callback of step k does with the error of its call             *)
(* (stress-client.js:556-557, 617-620, and subcallback itself elsewhere).  *)
cmdRpcOkayCallback(k, err) ==
    LET f == cmdRpcOkayFuncs[k]
    IN  IF f.via = "cbIgnoreErrorTypes"
        THEN IF ignoreErrorTypes(err, f.errtypes) = NoErr
             THEN "next" ELSE "fail"
        ELSE IF err = NoErr THEN "next" ELSE "fail"

(* setImmediate runs scCommandLoop: cmdRpcOkay starts its pipeline, which  *)
(* issues the first call.                                                  *)
OLoop ==
    /\ opc = 0
    /\ opc' = 1
    /\ olast' = [step |-> 0, err |-> NoErr, out |-> "next", fault |-> FALSE]
    /\ ostart' = store
    /\ UNCHANGED << mainVars, helperVars, cfgVars, connVars, failVars, loopVars, store >>

(* The call of step opc completes: the server has answered it, or, with    *)
(* fault, the call failed on the way and left the store alone.             *)
OCallback(fault) ==
    LET r == IF fault THEN Reply(store, TransportError)
                      ELSE moray(store, cmdRpcOkayFuncs[opc])
        out == cmdRpcOkayCallback(opc, r.err)
    IN  /\ opc \in 1 .. Len(cmdRpcOkayFuncs)
        /\ store' = r.store
        /\ opc' = IF out # "next" THEN -1
                  ELSE IF opc = Len(cmdRpcOkayFuncs) THEN 0 ELSE opc + 1
        /\ olast' = [step |-> opc, err |-> r.err, out |-> out, fault |-> fault]
        /\ UNCHANGED << mainVars, helperVars, cfgVars, connVars, failVars, loopVars, ostart >>

OkayNext ==
    \/ OLoop
    \/ \E fault \in BOOLEAN : OCallback(fault)

(* The sweep starts on a server that holds whatever an earlier run left. *)
OkayInit ==
    /\ InitButStore
    /\ store \in Leftovers
    /\ ignoreExplicitErrors = FALSE
    /\ fsys = CleanWorkspace

OkaySpec == OkayInit /\ [][OkayNext]_vars

(***************************************************************************)
(* The loop test.                                                          *)
(***************************************************************************)

(* An operation that asks for its object without waiting for its           *)
(* PutObject.                                                              *)
makeOneRequestGetsAtOnce(opstate) ==
    [opstate EXCEPT !.op_timeout = lnow, !.pc = "getting"]


(* makeOneRequest (loop.test.js:108-116): the operation sets its timer and *)
(* sends its PutObject.                                                    *)
makeOneRequest(opstate) ==
    [opstate EXCEPT !.op_timeout = lnow, !.pc = "putting"]

Running(o) == {i \in Ops : o[i].pc \in {"putting", "getting"}}
Queued(o) == {i \in Ops : o[i].pc = "queued"}

(* The vasync queue (loop.test.js:62-65): it hands the operations to the   *)
(* worker in the order they were pushed, while fewer than concurrency of   *)
(* them are running.                                                       *)
RECURSIVE dispatch(_)
dispatch(o) ==
    IF Cardinality(Running(o)) < concurrency /\ Queued(o) # {}
    THEN LET i == CHOOSE j \in Queued(o) : \A k \in Queued(o) : j <= k
         IN  dispatch([o EXCEPT ![i] = makeOneRequest(@)])
    ELSE o

(* The server's answer to getObject(bucket, key) for the objects objs. *)
getObject(objs, key) ==
    IF key \in DOMAIN objs
    THEN [err |-> NoErr, value |-> objs[key]]
    ELSE [err |-> << "ObjectNotFoundError" >>, value |-> NoValue]

LAlive == lphase \notin {"closed", "crashed"}

(* The key of an error in nbyerror (loop.test.js:151-154): the name of the *)
(* error, then the names along its cause chain, the error itself first.    *)
errname(op_error) == << op_error[1] >> \o op_error

(* nbyerror[name]++, from 0 for a name that is not yet a key               *)
(* (loop.test.js:155-158).                                                 *)
count(byerror, name) ==
    IF name \in DOMAIN byerror
    THEN [byerror EXCEPT ![name] = @ + 1]
    ELSE (name :> 1) @@ byerror

(* A finishRequest that counts a failed operation in both counters. *)
finishRequestCountsTwice(i, op_error) ==
    LET o == dispatch([ops EXCEPT ![i] = [pc |-> "done",
                                          op_error |-> op_error,
                                          op_timeout |-> NoTimeout]])
    IN  /\ ops' = o
        /\ nokay' = nokay + 1
        /\ nfailed' = IF op_error = NoErr THEN nfailed ELSE nfailed + 1
        /\ nbyerror' = IF op_error = NoErr THEN nbyerror
                       ELSE count(nbyerror, errname(op_error))
        /\ lphase' = IF \A j \in Ops : o[j].pc = "done" THEN "cleanup"
                                                       ELSE lphase

(* A finishRequest that leaves the operation's timer set. *)
finishRequestKeepsTimer(i, op_error) ==
    LET o == dispatch([ops EXCEPT ![i] = [pc |-> "done",
                                          op_error |-> op_error,
                                          op_timeout |-> @.op_timeout]])
    IN  /\ ops' = o
        /\ nokay' = IF op_error = NoErr THEN nokay + 1 ELSE nokay
        /\ nfailed' = IF op_error = NoErr THEN nfailed ELSE nfailed + 1
        /\ nbyerror' = IF op_error = NoErr THEN nbyerror
                       ELSE count(nbyerror, errname(op_error))
        /\ lphase' = IF \A j \in Ops : o[j].pc = "done" THEN "cleanup"
                                                       ELSE lphase

(* What finishRequest and the queue do when operation i is over            *)
(* (loop.test.js:137-174, 94-97): clear its timer, count it by its         *)
(* op_error, start the next queued operation, and when none is left run    *)
(* cleanup().                                                              *)
finishRequest(i, op_error) ==
    LET o == dispatch([ops EXCEPT ![i] = [pc |-> "done",
                                          op_error |-> op_error,
                                          op_timeout |-> NoTimeout]])
    IN  /\ ops' = o
        /\ nokay' = IF op_error = NoErr THEN nokay + 1 ELSE nokay
        /\ nfailed' = IF op_error = NoErr THEN nfailed ELSE nfailed + 1
        /\ nbyerror' = IF op_error = NoErr THEN nbyerror
                       ELSE count(nbyerror, errname(op_error))
        /\ lphase' = IF \A j \in Ops : o[j].pc = "done" THEN "cleanup"
                                                       ELSE lphase

(* The callback of putBucket (loop.test.js:78-100): assert.ifError throws  *)
(* on an error; otherwise the operations are pushed and the first ones     *)
(* start.                                                                  *)
LClientReady(fault) ==
    /\ lphase = "connecting"
    /\ lphase' = IF fault THEN "crashed" ELSE "running"
    /\ ops' = IF fault THEN ops ELSE dispatch(ops)
    /\ llast' = [kind |-> "putBucket", op |-> 0,
                 err |-> IF fault THEN TransportError ELSE NoErr,
                 value |-> NoValue, fault |-> fault,
                 out |-> IF fault THEN "throw" ELSE "next"]
    /\ UNCHANGED << mainVars, helperVars, cfgVars, connVars, failVars, okayVars,
                    ignoreExplicitErrors, bucket, nokay, nfailed, nbyerror,
                    lnow >>

(* The callback of putObject for operation i (loop.test.js:116-124): the   *)
(* server has stored the object, or, with fault, the call failed.          *)
LPutObject(i, fault) ==
    LET err == IF fault THEN TransportError ELSE NoErr
    IN  /\ LAlive
        /\ ops[i].pc = "putting"
        /\ bucket' = IF fault THEN bucket ELSE (i :> op_value) @@ bucket
        /\ IF fault /\ ignoreExplicitErrors
           THEN /\ finishRequest(i, err)
                /\ llast' = [kind |-> "putObject", op |-> i, err |-> err,
                             value |-> NoValue, fault |-> fault,
                             out |-> "finish"]
           ELSE IF fault
           THEN /\ lphase' = "crashed"
                /\ llast' = [kind |-> "putObject", op |-> i, err |-> err,
                             value |-> NoValue, fault |-> fault,
                             out |-> "throw"]
                /\ UNCHANGED << ops, nokay, nfailed, nbyerror >>
           ELSE /\ ops' = [ops EXCEPT ![i].pc = "getting"]
                /\ llast' = [kind |-> "putObject", op |-> i, err |-> err,
                             value |-> NoValue, fault |-> fault,
                             out |-> "next"]
                /\ UNCHANGED << lphase, nokay, nfailed, nbyerror >>
        /\ UNCHANGED << mainVars, helperVars, cfgVars, connVars, failVars, okayVars,
                        ignoreExplicitErrors, lnow >>

(* The callback of getObject for operation i (loop.test.js:125-133): the   *)
(* server has answered, or, with fault, the call failed.  Unless explicit  *)
(* errors are ignored an error or another value than op_value throws; then *)
(* op_error is set to the error of the PutObject and the operation is      *)
(* finished.                                                               *)
LGetObject(i, fault) ==
    LET r == IF fault THEN [err |-> TransportError, value |-> NoValue]
                      ELSE getObject(bucket, i)
        throws == /\ ~ ignoreExplicitErrors
                  /\ (r.err # NoErr \/ r.value # op_value)
    IN  /\ LAlive
        /\ ops[i].pc = "getting"
        /\ IF throws
           THEN /\ lphase' = "crashed"
                /\ UNCHANGED << ops, nokay, nfailed, nbyerror >>
           ELSE finishRequest(i, NoErr)
        /\ llast' = [kind |-> "getObject", op |-> i, err |-> r.err,
                     value |-> r.value, fault |-> fault,
                     out |-> IF throws THEN "throw" ELSE "finish"]
        /\ UNCHANGED << mainVars, helperVars, cfgVars, connVars, failVars, okayVars,
                        ignoreExplicitErrors, bucket, lnow >>

(* The callback of deleteBucket in cleanup() (loop.test.js:189-198). *)
LDeleteBucket(fault) ==
    /\ lphase = "cleanup"
    /\ lphase' = IF fault THEN "crashed" ELSE "closed"
    /\ bucket' = IF fault THEN bucket ELSE << >>
    /\ llast' = [kind |-> "deleteBucket", op |-> 0,
                 err |-> IF fault THEN TransportError ELSE NoErr,
                 value |-> NoValue, fault |-> fault,
                 out |-> IF fault THEN "throw" ELSE "next"]
    /\ UNCHANGED << mainVars, helperVars, cfgVars, connVars, failVars, okayVars,
                    ignoreExplicitErrors, ops, nokay, nfailed, nbyerror,
                    lnow >>

(* Whether the delay of operation i's timer has passed. *)
LExpired(i) == (lnow - ops[i].op_timeout) * LTickMs >= timeout

(* The callback of operation i's timer (loop.test.js:109-113) runs, not    *)
(* before the delay has passed and only while the timer is set: it throws  *)
(* 'operation timeout'.                                                    *)
LOperationTimeout(i) ==
    /\ LAlive
    /\ ops[i].op_timeout # NoTimeout
    /\ LExpired(i)
    /\ lphase' = "crashed"
    /\ llast' = [kind |-> "timeout", op |-> i, err |-> NoErr,
                 value |-> NoValue, fault |-> FALSE, out |-> "throw"]
    /\ UNCHANGED << mainVars, helperVars, cfgVars, connVars, failVars, okayVars,
                    ignoreExplicitErrors, ops, bucket, nokay, nfailed,
                    nbyerror, lnow >>

(* The clock of the loop test advances. *)
LTick ==
    /\ LAlive
    /\ lnow < MaxLoopTime
    /\ lnow' = lnow + 1
    /\ UNCHANGED << mainVars, helperVars, cfgVars, connVars, failVars, okayVars,
                    ignoreExplicitErrors, lphase, ops, bucket, nokay, nfailed,
                    nbyerror, llast >>

LoopNext ==
    \/ \E fault \in BOOLEAN : LClientReady(fault)
    \/ \E i \in Ops, fault \in BOOLEAN : LPutObject(i, fault)
    \/ \E i \in Ops, fault \in BOOLEAN : LGetObject(i, fault)
    \/ \E fault \in BOOLEAN : LDeleteBucket(fault)
    \/ \E i \in Ops : LOperationTimeout(i)
    \/ LTick

(* The test is started with or without --ignore-explicit-errors. *)
LoopInit ==
    /\ InitButStore
    /\ store = CleanStore
    /\ ignoreExplicitErrors \in BOOLEAN
    /\ fsys = CleanWorkspace

LoopSpec == LoopInit /\ [][LoopNext]_vars

(***************************************************************************)
(* The two sweeps together: both commands run their pipelines against the  *)
(* one server that main started, in any interleaving of their calls.       *)
(***************************************************************************)

(* A success sweep that works on the bucket of the failure sweep. *)
scTestBucketIsBogus == "stress_client_bogus_bucket"

(* The bucket names (stress-client.js:48-50). *)
scTestBucketBogus == "stress_client_bogus_bucket"
scTestBucketInvalid == "buckets can't have spaces!"
scTestBucket == "stress_client_bucket"

(* The buckets of the server in state st: the success sweep is the only    *)
(* command that creates a bucket, and store is the state of that bucket.   *)
Buckets(st) == IF st.exists THEN {scTestBucket} ELSE {}

(* The bucket each step of cmdRpcFail names (stress-client.js:423-525);    *)
(* getTokens and sql name none.                                            *)
cmdRpcFailBucket(k) ==
    CASE cmdRpcFailFuncs[k].call = "createBucket" -> scTestBucketInvalid
      [] cmdRpcFailFuncs[k].call \in {"getTokens", "sql"} -> ""
      [] OTHER -> scTestBucketBogus

(* The server's answer to step k of the failure sweep when its store is in *)
(* state st: a bucket name with spaces is refused, an update without       *)
(* fields is refused, a call on a bucket that does not exist fails with    *)
(* BucketNotFoundError and one on a bucket that exists succeeds; getTokens *)
(* is not supported by a Moray server and the table "bogus" does not       *)
(* exist.                                                                  *)
morayFail(st, k) ==
    LET f == cmdRpcFailFuncs[k]
    IN  CASE f.call = "createBucket" ->
               [err |-> << "InvalidBucketNameError" >>,
                message |-> << "invalid bucket name" >>]
          [] f.call = "updateObjects" ->
               [err |-> << "FieldUpdateError" >>,
                message |-> << "no fields" >>]
          [] f.call = "getTokens" ->
               [err |-> << "Error" >>,
                message |-> << "Operation not supported" >>]
          [] f.call = "sql" ->
               [err |-> << "error" >>,
                message |-> << "relation \"bogus\" does not exist" >>]
          [] OTHER ->
               IF cmdRpcFailBucket(k) \in Buckets(st)
               THEN Success
               ELSE [err |-> << "BucketNotFoundError" >>,
                     message |-> << "does not exist" >>]

(* The process is alive while no sweep has failed. *)
SAlive == fpc # -1 /\ opc # -1

(* A pipeline of the failure sweep that goes on to the next step whatever  *)
(* the step before reported.                                               *)
SFCallbackGoesOn(fault) ==
    LET res == IF fault THEN [err |-> TransportError, message |-> << "fault" >>]
                        ELSE morayFail(store, fpc)
        out == cmdRpcFailCallback(fpc, res)
    IN  /\ SAlive
        /\ fpc \in 1 .. Len(cmdRpcFailFuncs)
        /\ fpc' = IF fpc = Len(cmdRpcFailFuncs) THEN 0 ELSE fpc + 1
        /\ flast' = [step |-> fpc, res |-> res, out |-> out]
        /\ UNCHANGED << mainVars, helperVars, cfgVars, connVars, okayVars, loopVars >>

SFLoop == SAlive /\ FLoop

(* The call of step fpc of the failure sweep completes: the server has     *)
(* answered it, or, with fault, the call failed on the way.                *)
SFCallback(fault) ==
    /\ SAlive
    /\ FCallback(IF fault THEN [err |-> TransportError, message |-> << "fault" >>]
                          ELSE morayFail(store, fpc))

SOLoop == SAlive /\ OLoop

SOCallback(fault) == SAlive /\ OCallback(fault)

SweepNext ==
    \/ SFLoop
    \/ \E fault \in BOOLEAN : SFCallback(fault)
    \/ SOLoop
    \/ \E fault \in BOOLEAN : SOCallback(fault)

SweepSpec == OkayInit /\ [][SweepNext]_vars

(***************************************************************************)
(* The "configure" tool (README.md:104-841): main reads CONFIG_FILE and    *)
(* configure() runs a pipeline of steps, each of which either changes the  *)
(* workspace or, in a dry run, prints what it would do.                    *)
(*                                                                         *)
(* File contents are sequences of parts; the part "EOF" stands for any     *)
(* text in which the here-document delimiter occurs.                       *)
(***************************************************************************)
eom == "EOF"
HasEom(contents) == \E i \in DOMAIN contents : contents[i] = eom

(* The command lines, the contents of CONFIG_FILE and of the files read,   *)
(* and the PATH values the model runs configure with.                      *)
Argvs ==
    { << >>, << "cfg" >>, << "-n", "cfg" >>, << "--dry-run", "cfg" >>,
      << "cfg", "-n" >> }
TsConfigs ==
    [remote : BOOLEAN, configBase : BOOLEAN, clientPath : BOOLEAN,
     serverPath : BOOLEAN]
ReadJsonFiles == {"unreadable", "unparsable", "ok"}
EnvPaths == {"/usr/bin", eom}
BaseConfigs == {<< "{}" >>, << "{", eom, "}" >>}
PkgJsons == {"unreadable", "unparsable", "othername", "ok"}

(* The pipelines of configure() (README.md:389-394, 439-449). *)
funcs(cfg) ==
    IF cfg.c_use_remote
    THEN << "configureSanityCheckClientDirectory", "configureMkdirpClient",
            "configureInstallClient", "configureWriteEnv" >>
    ELSE << "configureSanityCheckClientDirectory",
            "configureSanityCheckServerDirectory", "configureMkdirpClient",
            "configureMkdirpServer", "configureReadServerConfig",
            "configureWriteServerConfig", "configureInstallClient",
            "configureInstallServer", "configureWriteEnv" >>

(* The workspace and the output as one value, with the error a step calls  *)
(* back with ("" for none).                                                *)
CSt == [fsys |-> fsys, syscalls |-> syscalls, stdout |-> stdout, err |-> ""]

(* A sanity check that lets an existing directory pass. *)
configureSanityCheckDirectoryPasses(st, cfg, directory, fault) ==
    IF cfg.c_dryrun THEN st
    ELSE IF fault THEN [st EXCEPT !.err = "lstat"]
    ELSE st

(* configureSanityCheckDirectory (README.md:481-498); fault is an lstat    *)
(* that fails for another reason than ENOENT.                              *)
configureSanityCheckDirectory(st, cfg, directory, fault) ==
    IF cfg.c_dryrun THEN st
    ELSE IF fault THEN [st EXCEPT !.err = "lstat"]
    ELSE IF directory \in st.fsys THEN [st EXCEPT !.err = "refusing to clobber"]
    ELSE st

(* configureMkdirp that takes no notice of the dry run. *)
configureMkdirpAlways(st, cfg, path, fault) ==
    LET s1 == [st EXCEPT !.syscalls = Append(@, [call |-> "mkdirp", path |-> path])]
    IN  IF fault THEN [s1 EXCEPT !.err = "mkdirp"]
        ELSE [s1 EXCEPT !.fsys = @ \cup {path}]

(* configureMkdirp (README.md:526-535). *)
configureMkdirp(st, cfg, path, fault) ==
    IF cfg.c_dryrun
    THEN [st EXCEPT !.stdout = Append(@, [say |-> "mkdir -p", arg |-> path])]
    ELSE LET s1 == [st EXCEPT !.syscalls =
                                 Append(@, [call |-> "mkdirp", path |-> path])]
         IN  IF fault THEN [s1 EXCEPT !.err = "mkdirp"]
             ELSE [s1 EXCEPT !.fsys = @ \cup {path}]

(* configureWriteFile (README.md:581-616); the three writes of the dry run *)
(* are one here-document.                                                  *)
configureWriteFile(st, cfg, filename, contents, fault) ==
    IF HasEom(contents)
    THEN [st EXCEPT !.err = "internal error: unsupported file contents"]
    ELSE IF cfg.c_dryrun
    THEN [st EXCEPT !.stdout = Append(@, [say |-> "cat >", arg |-> filename])]
    ELSE LET s1 == [st EXCEPT !.stdout = Append(@, [say |-> "writing",
                                                    arg |-> filename]),
                              !.syscalls = Append(@, [call |-> "writeFile",
                                                      path |-> filename])]
         IN  IF fault THEN [s1 EXCEPT !.err = "write"]
             ELSE [s1 EXCEPT !.fsys = @ \cup {filename}]

(* configureExec (README.md:739-748); "running: ..." goes to the standard  *)
(* error.  An npm command that succeeds leaves the package installed.      *)
configureExec(st, cfg, cwd, installed, fault) ==
    IF cfg.c_dryrun
    THEN [st EXCEPT !.stdout = Append(@, [say |-> "(cd && npm)", arg |-> cwd])]
    ELSE LET s1 == [st EXCEPT !.syscalls = Append(@, [call |-> "forkExecWait",
                                                      path |-> cwd])]
         IN  IF fault THEN [s1 EXCEPT !.err = "exec"]
             ELSE [s1 EXCEPT !.fsys = @ \cup {installed}]

(* configureInstall (README.md:667-732): "npm install" of the stock        *)
(* package, or "npm link" of a local one whose package.json names it.      *)
configureInstall(st, cfg, root, installed, target, pkg, fault) ==
    IF target = "null" THEN configureExec(st, cfg, root, installed, fault)
    ELSE IF pkg = "unreadable" THEN [st EXCEPT !.err = "read"]
    ELSE IF pkg = "unparsable" THEN [st EXCEPT !.err = "parse"]
    ELSE IF pkg = "othername" THEN [st EXCEPT !.err = "expected package name"]
    ELSE configureExec(st, cfg, root, installed, fault)

(* The contents configureWriteEnv collects (README.md:760-769). *)
envContents(cfg) == << "# This file was auto-generated" >> \o cfg.c_env

(* configure() up to the call of vasync.pipeline (README.md:226-450). *)
configure(dryRun, tsconfig, path) ==
    [c_dryrun |-> dryRun,
     c_use_remote |-> tsconfig.remote,
     c_client_target |-> IF tsconfig.clientPath THEN "local" ELSE "null",
     c_server_target |-> IF tsconfig.serverPath THEN "local" ELSE "null",
     c_server_base_config |-> << >>,
     c_env |-> << "export PATH=", path >>]

(* The pipeline function that is running. *)
CfgRunning(name) ==
    /\ cfgerr = ""
    /\ cfgpc \in 1 .. Len(funcs(cfgctx))
    /\ funcs(cfgctx)[cfgpc] = name

(* The callback of a pipeline function: the next one runs, or the pipeline *)
(* ends with the error and mod_cmdutil.fail exits (README.md:452-457,       *)
(* 188-192).                                                                *)
CfgCallback(st) ==
    /\ fsys' = st.fsys
    /\ syscalls' = st.syscalls
    /\ stdout' = st.stdout
    /\ cfgerr' = st.err
    /\ cfgpc' = IF st.err = "" THEN cfgpc + 1 ELSE cfgpc
    /\ UNCHANGED << mainVars, helperVars, connVars, failVars, okayVars, loopVars >>

(* main and the callback of its readJsonFile (README.md:152-216). *)
CfgMain ==
    /\ cfgpc = 0
    /\ cfgerr = ""
    /\ \E argv \in Argvs, read \in ReadJsonFiles, valid \in BOOLEAN,
          file \in TsConfigs, path \in EnvPaths :
          LET dryRun == argv # << >> /\ argv[1] \in {"-n", "--dry-run"}
              rest == IF dryRun THEN Tail(argv) ELSE argv
          IN  IF Len(rest) # 1
              THEN cfgerr' = "usage" /\ UNCHANGED << cfgctx, cfgpc >>
              ELSE IF read # "ok"
              THEN cfgerr' = read /\ UNCHANGED << cfgctx, cfgpc >>
              ELSE IF ~ valid
              THEN cfgerr' = "validate" /\ UNCHANGED << cfgctx, cfgpc >>
              ELSE IF ~ file.configBase /\ ~ file.remote
              THEN /\ cfgerr' = "at least one of server.configBase or server.remote"
                   /\ UNCHANGED << cfgctx, cfgpc >>
              ELSE /\ cfgctx' = configure(dryRun, file, path)
                   /\ cfgpc' = 1
                   /\ cfgerr' = ""
    /\ UNCHANGED << fsys, syscalls, stdout >>
    /\ UNCHANGED << mainVars, helperVars, connVars, failVars, okayVars, loopVars >>

CfgSanityCheckClientDirectory(fault) ==
    /\ CfgRunning("configureSanityCheckClientDirectory")
    /\ CfgCallback(configureSanityCheckDirectory(CSt, cfgctx,
                                                 c_client_installed, fault))
    /\ UNCHANGED cfgctx

CfgSanityCheckServerDirectory(fault) ==
    /\ CfgRunning("configureSanityCheckServerDirectory")
    /\ CfgCallback(configureSanityCheckDirectory(CSt, cfgctx,
                                                 c_server_installed, fault))
    /\ UNCHANGED cfgctx

(* configureMkdirpClient (README.md:505-509). *)
CfgMkdirpClient(fault) ==
    /\ CfgRunning("configureMkdirpClient")
    /\ CfgCallback(configureMkdirp(CSt, cfgctx, "run/client/node_modules", fault))
    /\ UNCHANGED cfgctx

(* configureMkdirpServer (README.md:516-520). *)
CfgMkdirpServer(fault) ==
    /\ CfgRunning("configureMkdirpServer")
    /\ CfgCallback(configureMkdirp(CSt, cfgctx, "run/server/node_modules", fault))
    /\ UNCHANGED cfgctx

(* configureReadServerConfig (README.md:540-556). *)
CfgReadServerConfig(read, c) ==
    /\ CfgRunning("configureReadServerConfig")
    /\ IF read # "ok"
       THEN CfgCallback([CSt EXCEPT !.err = read]) /\ UNCHANGED cfgctx
       ELSE /\ CfgCallback(CSt)
            /\ cfgctx' = [cfgctx EXCEPT !.c_server_base_config = c]

(* configureWriteServerConfig (README.md:562-574). *)
CfgWriteServerConfig(fault) ==
    /\ CfgRunning("configureWriteServerConfig")
    /\ CfgCallback(configureWriteFile(CSt, cfgctx, c_server_config,
                                      cfgctx.c_server_base_config, fault))
    /\ UNCHANGED cfgctx

(* configureInstallClient (README.md:621-630). *)
CfgInstallClient(pkg, fault) ==
    /\ CfgRunning("configureInstallClient")
    /\ CfgCallback(configureInstall(CSt, cfgctx, c_run_client, c_client_installed,
                                    cfgctx.c_client_target, pkg, fault))
    /\ UNCHANGED cfgctx

(* configureInstallServer (README.md:635-644). *)
CfgInstallServer(pkg, fault) ==
    /\ CfgRunning("configureInstallServer")
    /\ CfgCallback(configureInstall(CSt, cfgctx, c_run_server, c_server_installed,
                                    cfgctx.c_server_target, pkg, fault))
    /\ UNCHANGED cfgctx

(* configureWriteEnv (README.md:755-776). *)
CfgWriteEnv(fault) ==
    /\ CfgRunning("configureWriteEnv")
    /\ CfgCallback(configureWriteFile(CSt, cfgctx, c_env_path,
                                      envContents(cfgctx), fault))
    /\ UNCHANGED cfgctx

ConfigNext ==
    \/ CfgMain
    \/ \E fault \in BOOLEAN : CfgSanityCheckClientDirectory(fault)
    \/ \E fault \in BOOLEAN : CfgSanityCheckServerDirectory(fault)
    \/ \E fault \in BOOLEAN : CfgMkdirpClient(fault)
    \/ \E fault \in BOOLEAN : CfgMkdirpServer(fault)
    \/ \E read \in ReadJsonFiles, c \in BaseConfigs : CfgReadServerConfig(read, c)
    \/ \E fault \in BOOLEAN : CfgWriteServerConfig(fault)
    \/ \E pkg \in PkgJsons, fault \in BOOLEAN : CfgInstallClient(pkg, fault)
    \/ \E pkg \in PkgJsons, fault \in BOOLEAN : CfgInstallServer(pkg, fault)
    \/ \E fault \in BOOLEAN : CfgWriteEnv(fault)

(* configure starts in a workspace in which either package may already be  *)
(* installed.                                                              *)
ConfigInit ==
    /\ InitButStore
    /\ store = CleanStore
    /\ ignoreExplicitErrors = FALSE
    /\ fsys \in SUBSET {c_client_installed, c_server_installed}

ConfigSpec == ConfigInit /\ [][ConfigNext]_vars

(***************************************************************************)
(* helper.createServer and helper.cleanupServer for a local server         *)
(* (stress-client.js:731-831).  The output of the child is a sequence of   *)
(* pieces of text; a marker may arrive split over two chunks.              *)
(***************************************************************************)
MaxOutput == 5
MaxChunk == 2
Pieces == {"moray listening on ", "2020", "manatee ", "ready", "x"}
Chunks == UNION {[1 .. n -> Pieces] : n \in 1 .. MaxChunk}

(* Whether the text s holds the text w. *)
Contains(s, w) ==
    \E i \in 1 .. Len(s) - Len(w) + 1 : SubSeq(s, i, i + Len(w) - 1) = w

(* /moray listening on \d+/.test(s) and /manatee ready/.test(s). *)
morayListening(s) == Contains(s, << "moray listening on ", "2020" >>)
manateeReady(s) == Contains(s, << "manatee ", "ready" >>)

(* The exits of the child: its status and the signal that ended it. *)
ExitCodes == {0, 1, -1}
ExitSignals == {"null", "SIGKILL", "SIGTERM"}

(* A 'data' handler that looks for the markers in the chunk it was given. *)
ptOnDataChunkOnly(text, c, isReady) ==
    ~ isReady /\ morayListening(c) /\ manateeReady(c)

(* The test of the 'data' handler (stress-client.js:767-770) on the text   *)
(* seen so far, the chunk c included.                                      *)
ptOnData(text, c, isReady) ==
    ~ isReady /\ morayListening(text) /\ manateeReady(text)

(* An 'exit' handler that calls the cleanup callback however the child     *)
(* exited.                                                                 *)
cpOnExitAnyExit(srv, code, signal) ==
    IF srv.ts_cleanup_cb = 0 THEN "throw" ELSE "callback"

(* The 'exit' handler of the child (stress-client.js:789-814); code -1 is  *)
(* the null of an exit by a signal.                                        *)
cpOnExit(srv, code, signal) ==
    IF code = 0 THEN "throw"
    ELSE IF srv.ts_cleanup_cb = 0 \/ signal # "SIGKILL" THEN "throw"
    ELSE "callback"

(* A cleanupServer that takes the callback of every call. *)
cleanupServerAgain(srv, cb, nkills) ==
    [server |-> [srv EXCEPT !.ts_cleanup_cb = cb], kills |-> nkills + 1,
     out |-> "killed"]

(* cleanupServer for a local server (stress-client.js:817-831). *)
cleanupServer(srv, cb, nkills) ==
    IF srv.ts_cleanup_cb # 0
    THEN [server |-> srv, kills |-> nkills, out |-> "throw"]
    ELSE [server |-> [srv EXCEPT !.ts_cleanup_cb = cb], kills |-> nkills + 1,
          out |-> "killed"]

HAlive == hproc = "alive"

(* createServer (stress-client.js:731-787): without the command to run in  *)
(* the environment it throws, else it spawns the child and sets the timer. *)
HCreateServer(envOk) ==
    /\ HAlive
    /\ server.ts_child = "none"
    /\ IF envOk
       THEN /\ server' = [server EXCEPT !.ts_child = "running"]
            /\ startTimer' = TRUE
            /\ hproc' = hproc
            /\ hlast' = [hlast EXCEPT !.op = "createServer", !.out = "spawned"]
       ELSE /\ hproc' = "crashed"
            /\ hlast' = [hlast EXCEPT !.op = "createServer", !.out = "throw"]
            /\ UNCHANGED << server, startTimer >>
    /\ UNCHANGED << seen, ready, kills >>
    /\ UNCHANGED << mainVars, connVars, failVars, okayVars, loopVars, cfgVars >>

(* The 'data' handler (stress-client.js:767-777) gets the chunk c. *)
HData(c) ==
    /\ HAlive
    /\ server.ts_child # "none"
    /\ Len(seen) + Len(c) <= MaxOutput
    /\ seen' = seen \o c
    /\ IF ptOnData(seen \o c, c, ready)
       THEN /\ ready' = TRUE
            /\ startTimer' = FALSE
            /\ hlast' = [hlast EXCEPT !.op = "data", !.ncb = @ + 1, !.out = "cb"]
       ELSE /\ hlast' = [hlast EXCEPT !.op = "data", !.out = "none"]
            /\ UNCHANGED << ready, startTimer >>
    /\ UNCHANGED << hproc, server, kills >>
    /\ UNCHANGED << mainVars, connVars, failVars, okayVars, loopVars, cfgVars >>

(* The 10 second timer (stress-client.js:779-781) fires. *)
HStartTimeout ==
    /\ HAlive
    /\ startTimer
    /\ startTimer' = FALSE
    /\ hproc' = "crashed"
    /\ hlast' = [hlast EXCEPT !.op = "startTimeout", !.out = "throw"]
    /\ UNCHANGED << server, seen, ready, kills >>
    /\ UNCHANGED << mainVars, connVars, failVars, okayVars, loopVars, cfgVars >>

(* A caller that was given the server calls cleanupServer(server, cb). *)
HCleanupServer(cb) ==
    LET r == cleanupServer(server, cb, kills)
    IN  /\ HAlive
        /\ ready
        /\ server' = r.server
        /\ kills' = r.kills
        /\ hproc' = IF r.out = "throw" THEN "crashed" ELSE hproc
        /\ hlast' = [hlast EXCEPT !.op = "cleanupServer", !.out = r.out]
        /\ UNCHANGED << seen, ready, startTimer >>
        /\ UNCHANGED << mainVars, connVars, failVars, okayVars, loopVars, cfgVars >>

(* The child exits with the status code, or by signal. *)
HExit(code, signal) ==
    LET out == cpOnExit(server, code, signal)
    IN  /\ HAlive
        /\ server.ts_child = "running"
        /\ server' = [server EXCEPT !.ts_child = "exited"]
        /\ hproc' = IF out = "throw" THEN "crashed" ELSE hproc
        /\ hlast' = [hlast EXCEPT !.op = "exit",
                                  !.ncleanup = IF out = "callback" THEN @ + 1 ELSE @,
                                  !.out = out,
                                  !.code = code, !.signal = signal]
        /\ UNCHANGED << seen, ready, startTimer, kills >>
        /\ UNCHANGED << mainVars, connVars, failVars, okayVars, loopVars, cfgVars >>

HelperNext ==
    \/ \E envOk \in BOOLEAN : HCreateServer(envOk)
    \/ \E c \in Chunks : HData(c)
    \/ HStartTimeout
    \/ \E cb \in {1, 2} : HCleanupServer(cb)
    \/ \E code \in ExitCodes, signal \in ExitSignals : HExit(code, signal)

HelperSpec == Init /\ [][HelperNext]_vars

(***************************************************************************)
(* Properties.                                                             *)
(***************************************************************************)
NStarted(c) == IF c \in DOMAIN ctx THEN ctx[c].nstarted ELSE 0
Armed(c) == {t \in timers : t.cmd = c /\ t.func = "scWatchdogFire"}
KnOps == {"knListTypes", "knListObjects", "knGetObject"}

(* C1: for every command, in every reachable state, at most one iteration  *)
(* is in flight (exec invoked, its callback not yet called), whatever the  *)
(* other commands and the introspection queries do.                        *)
C1_AtMostOneInFlight ==
    \A c \in Cmds : Cardinality(outstanding[c]) <= 1

(* Two commands are mid-iteration, one in its second iteration, and the    *)
(* last turn served a get.                                                 *)
C1_Witness ==
    \E c, d \in Cmds :
        /\ c # d
        /\ outstanding[c] = {2}
        /\ outstanding[d] # {}
        /\ lastTurn.op = "knGetObject"

(* C2: nstarted is 0 when the context is created and changes only by an    *)
(* entry of scCommandLoop, which raises it by exactly 1: in every step it  *)
(* grows by the number of iterations the step starts (and so never         *)
(* decreases).                                                             *)
C2_NStartedCountsStarts ==
    [][\A c \in Cmds :
          NStarted(c)' = NStarted(c) + Cardinality(outstanding'[c] \ outstanding[c])]_vars

(* A context was created at 0 and has reached its second iteration. *)
C2_Witness ==
    \E c, d \in Cmds :
        /\ c \in DOMAIN ctx /\ d \in DOMAIN ctx
        /\ ctx[c].nstarted = 2
        /\ ctx[d].nstarted = 0

(* C3: per command at most one watchdog timer is armed at any time, and a  *)
(* timer is set only when the command's previous timer is no longer armed. *)
C3_OneWatchdogArmed ==
    /\ [](\A c \in Cmds : Cardinality(Armed(c)) <= 1)
    /\ [][\A c \in Cmds : ntimers'[c] # ntimers[c] => Armed(c) = {}]_vars

(* The second timer of a command is armed, its first one is not. *)
C3_Witness ==
    \E c \in Cmds : \E t \in Armed(c) : t.id = 2 /\ Cardinality(Armed(c)) = 1

(* C4 as claimed: while the process runs, ctx.timer is non-null exactly    *)
(* when an iteration of the command is outstanding.                        *)
C4_TimerNonNullIffOutstanding ==
    Alive =>
        \A c \in DOMAIN ctx : (ctx[c].timer # NullTimer) <=> (outstanding[c] # {})

(* C4 as amended: while the process runs, ctx.timer is null until the      *)
(* first iteration starts and keeps the last handle from then on, also     *)
(* between iterations; an iteration is outstanding exactly when the timer  *)
(* that ctx.timer refers to is armed.                                      *)
C4_TimerHandleKept ==
    Alive =>
        \A c \in DOMAIN ctx :
            /\ (ctx[c].timer = NullTimer) <=> (ctx[c].nstarted = 0)
            /\ (outstanding[c] # {}) <=>
                   (\E t \in Armed(c) : t.id = ctx[c].timer)

(* Between two iterations: nothing outstanding, the next one scheduled,    *)
(* ctx.timer still holding the cleared handle.                             *)
C4_Witness ==
    \E c \in DOMAIN ctx :
        /\ Alive
        /\ ctx[c].timer # NullTimer
        /\ outstanding[c] = {}
        /\ immediates[c] = 1
        /\ Armed(c) = {}

(* C5: an iteration after the first starts only in a turn of its own, run  *)
(* by setImmediate, that begins with the command's previous exec callback  *)
(* already returned; the turn of an exec callback starts no iteration.     *)
C5_NextIterationInLaterTurn ==
    [][\A c \in Cmds :
          NStarted(c)' # NStarted(c) =>
              /\ outstanding[c] = {}
              /\ lastTurn'.op # "ExecCallback"
              /\ NStarted(c) >= 1 =>
                     /\ lastTurn' = Turn("scCommandLoop", c, Nothing)
                     /\ immediates[c] >= 1]_vars

(* The last turn was the setImmediate turn that started iteration 2. *)
C5_Witness ==
    \E c \in Cmds :
        /\ lastTurn = Turn("scCommandLoop", c, Nothing)
        /\ c \in DOMAIN ctx
        /\ ctx[c].nstarted = 2
        /\ outstanding[c] = {2}

C7_ExecErrorIsFatal ==
    /\ [][\A c \in Cmds :
              (/\ lastTurn'.op = "ExecCallback"
               /\ lastTurn'.res.status = "err"
               /\ lastTurn'.cmd = c) =>
                  /\ Armed(c)' = {}
                  /\ output' = Append(output, [level |-> "fatal",
                                               msg |-> "exec command",
                                               name |-> scCommands[c].name])
                  /\ proc' = "crashed"
                  /\ immediates' = immediates
                  /\ ctx' = ctx]_vars
    /\ [][proc = "crashed" => UNCHANGED vars]_vars

(* An exec error of one command in its second iteration has ended the      *)
(* process while another command was mid-iteration.                        *)
C7_Witness ==
    /\ proc = "crashed"
    /\ lastTurn.op = "ExecCallback"
    /\ lastTurn.res.status = "err"
    /\ ctx[lastTurn.cmd].nstarted = 2
    /\ \E d \in Cmds : d # lastTurn.cmd /\ outstanding[d] # {}

(* C8: once a setup has reported an error the process has exited with an   *)
(* error, whatever the state of the other setups.                          *)
C8_SetupFailureIsFatal ==
    \A c \in Cmds : setupState[c] = "failed" => proc = "failed"

(* C9: a get for a registered command, served while the introspection      *)
(* server listens, returns a snapshot and raises no error.                 *)
C9_GetNeverRaises ==
    (/\ lastTurn.op = "knGetObject"
     /\ lastTurn.cmd \in Cmds
     /\ lastTurn.res.status # "AssertionError") =>
        lastTurn.res.status = "ok"

(* C10: a turn that serves an introspection query changes nothing but the  *)
(* answer: every context, the setup and loop state, the timers, the clock  *)
(* and the output are as before.                                           *)
C10_IntrospectionReadsOnly ==
    [][lastTurn'.op \in KnOps =>
          UNCHANGED << mainpc, proc, scServer, ctx, setupState, ndone, nerrors,
                       outstanding, immediates, timers, ntimers, now, output >>]_vars

(* A get has just returned the snapshot of a command that is in the middle *)
(* of its second iteration.                                                *)
C10_Witness ==
    /\ lastTurn.op = "knGetObject"
    /\ lastTurn.res.status = "ok"
    /\ lastTurn.res.value.nstarted = 2
    /\ outstanding[lastTurn.cmd] = {2}

(* C11: once a command's setupDone is set its nstarted is at least 1, so a *)
(* get that returns the snapshot of such a command reports nstarted >= 1.  *)
C11_SetupDoneImpliesStarted ==
    /\ \A c \in DOMAIN ctx :
          ctx[c].setupDone # NullDate => ctx[c].nstarted >= 1
    /\ (/\ lastTurn.op = "knGetObject"
        /\ lastTurn.res.status = "ok"
        /\ ctx[lastTurn.cmd].setupDone # NullDate) =>
           lastTurn.res.value.nstarted >= 1

(* A get has just returned the snapshot of a command whose setup has       *)
(* completed and whose first iteration is still outstanding.               *)
C11_Witness ==
    /\ lastTurn.op = "knGetObject"
    /\ lastTurn.res.status = "ok"
    /\ ctx[lastTurn.cmd].setupDone # NullDate
    /\ lastTurn.res.value.nstarted = 1
    /\ outstanding[lastTurn.cmd] = {1}

(* C12 as stated: list-types returns the one type "command".               *)
C12_TypeIsCommand ==
    lastTurn.op = "knListTypes" => lastTurn.res.value = << "command" >>

(* C12: list-types returns the one type "cmd", and a listing of that type  *)
(* returns the indices 0 .. NumCommands - 1 in order, whenever it is       *)
(* asked; a listing of any other type is refused.                          *)
C12_FixedTypeAndIdentifiers ==
    /\ lastTurn.op = "knListTypes" => lastTurn.res = Ok(<< "cmd" >>)
    /\ lastTurn.op = "knListObjects" =>
          \/ lastTurn.res = Ok([i \in 1 .. NumCommands |-> i - 1])
          \/ lastTurn.res.status = "AssertionError"
    /\ knListObjects(St, "cmd").ret = Ok([i \in 1 .. NumCommands |-> i - 1])
    /\ knListObjects(St, "command").ret.status = "AssertionError"

(* The identifiers have just been listed before any command has a context. *)
C12_Witness ==
    /\ lastTurn.op = "knListObjects"
    /\ lastTurn.res = Ok([i \in 1 .. NumCommands |-> i - 1])
    /\ DOMAIN ctx = {}

(* The commands whose client connects to the server srv. *)
Users(srv) ==
    {c \in AllCmds : /\ ctxClient[c] # 0
                     /\ clients[ctxClient[c]].host = "127.0.0.1"
                     /\ clients[ctxClient[c]].port = srv.port}

(* C13: an iteration of the never-connected command passes exactly when    *)
(* its listBuckets failed with NoBackendsError somewhere in the cause      *)
(* chain; after any other error, and after a call that succeeded, the      *)
(* process is dead and nothing runs any more.                              *)
C13_NeverConnectedPassesIffNoBackends ==
    (xlast.op = "listBuckets" /\ xlast.cmd = 0) =>
        /\ xlast.out = "pass" <=>
              \E i \in DOMAIN xlast.err : xlast.err[i] = "NoBackendsError"
        /\ xlast.out # "pass" =>
              /\ xlast.out \in {"fail", "throw"}
              /\ xpc[0] = "dead"
              /\ ~ ENABLED ConnNext

(* The listBuckets of the never-connected command has just succeeded. *)
C13_Witness ==
    /\ xlast.op = "listBuckets"
    /\ xlast.cmd = 0
    /\ xlast.err = NoErr
    /\ xpc[0] = "dead"

(* C14: the final ping is sent when the reconnect command's server has     *)
(* exited, and it passes exactly when it failed with NoBackendsError,      *)
(* FastTransportError or FastProtocolError in the cause chain; otherwise   *)
(* the iteration fails and the process is dead.                            *)
C14_FinalPingWhitelist ==
    /\ xpc[2] = "finalPing" => \A s \in servers : s.owner # 2
    /\ xlast.op = "finalPing" =>
        /\ xlast.out = "pass" <=>
              \E i \in DOMAIN xlast.err :
                  xlast.err[i] \in {"NoBackendsError", "FastTransportError",
                                    "FastProtocolError"}
        /\ xlast.out # "pass" =>
              /\ xlast.out = "fail"
              /\ xpc[2] = "dead"
              /\ ~ ENABLED ConnNext

(* The final ping has just failed with a whitelisted kind below a wrapper, *)
(* and the iteration passed.                                               *)
C14_Witness ==
    /\ xlast.op = "finalPing"
    /\ xlast.err = << "FastRequestError", "FastProtocolError" >>
    /\ xlast.out = "pass"
    /\ xpc[2] = "idle"

(* C20 as stated: no client and no server is used by more than one         *)
(* command.                                                                *)
C20_ExclusiveHandles ==
    /\ \A c, d \in AllCmds :
          (c # d /\ ctxClient[c] # 0) => ctxClient[c] # ctxClient[d]
    /\ \A srv \in servers : Cardinality(Users(srv)) <= 1

(* C20: every command has a client object of its own; a server that a      *)
(* command started is used by that command's client only, and no two       *)
(* servers listen on one port; the server that main started is shared by   *)
(* the clients of the two sweeps, and by them only.                        *)
C20_OwnClientsSharedServer ==
    /\ \A c, d \in AllCmds :
          (c # d /\ ctxClient[c] # 0) => ctxClient[c] # ctxClient[d]
    /\ \A srv \in servers :
          /\ srv.owner \in AllCmds => Users(srv) \subseteq {srv.owner}
          /\ srv.owner = -1 => Users(srv) = {3, 4}
          /\ \A other \in servers : other.port = srv.port => other = srv

(* Both sweeps run against the server that main started, while the         *)
(* reconnect command has a server of its own up.                           *)
C20_Witness ==
    /\ xpc[3] = "sweeping"
    /\ xpc[4] = "sweeping"
    /\ \E srv \in servers : srv.owner = -1 /\ Users(srv) = {3, 4}
    /\ \E srv \in servers : srv.owner = 2 /\ Users(srv) = {2}

(* C15 as stated: a step of the failure sweep passes only when its call    *)
(* failed with an error of that step's whitelisted kind.                   *)
C15_StepPassesOnlyOnExpectedError ==
    (flast.step >= 1 /\ flast.out = "next") =>
        /\ flast.res.err # NoErr
        /\ cmdRpcFailFuncs[flast.step].errtypes # {} =>
              \E i \in DOMAIN flast.res.err :
                  flast.res.err[i] \in cmdRpcFailFuncs[flast.step].errtypes

(* The calls of the success sweep that need the test bucket. *)
BucketCalls ==
    {"getBucket", "updateBucket", "putObject", "batch", "getObject",
     "delObject", "findObjects", "updateObjects", "reindexObjects",
     "deleteMany"}

(* C16: in an iteration that started without the test bucket, the bucket   *)
(* exists whenever a call that needs it is outstanding, and so does the    *)
(* key that getObject reads or delObject deletes; every call the server    *)
(* answers passes its step, with no error but the BucketNotFoundError of   *)
(* the first deleteBucket; and a call that fails for another reason fails  *)
(* its step, after which the process is dead.                              *)
C16_EveryStepSucceedsFromCleanStore ==
    /\ (opc >= 1 /\ ~ ostart.exists) =>
          LET f == cmdRpcOkayFuncs[opc]
          IN  /\ f.call \in BucketCalls => store.exists
              /\ f.call = "deleteBucket" /\ opc > 1 => store.exists
              /\ f.call \in {"getObject", "delObject"} =>
                    f.key \in DOMAIN store.objs
    /\ (olast.step >= 1 /\ ~ olast.fault /\ ~ ostart.exists) =>
          /\ olast.out = "next"
          /\ olast.err # NoErr =>
                olast.step = 1 /\ olast.err = << "BucketNotFoundError" >>
    /\ olast.fault =>
          /\ olast.out = "fail"
          /\ opc = -1
          /\ ~ ENABLED OkayNext

(* An iteration that started without the test bucket has completed. *)
C16_Witness ==
    /\ ~ ostart.exists
    /\ olast.step = Len(cmdRpcOkayFuncs)
    /\ olast.out = "next"
    /\ opc = 0

(* The store before step k of an iteration that started without the test  *)
(* bucket and in which the server answered every call.                     *)
RECURSIVE StoreBefore(_)
StoreBefore(k) ==
    IF k = 1
    THEN CleanStore
    ELSE moray(StoreBefore(k - 1), cmdRpcOkayFuncs[k - 1]).store

(* C17: whatever an iteration found of the test bucket when it started,    *)
(* from its second step on the store is what it would be had the iteration *)
(* started without the bucket, so every call the server answers passes;    *)
(* and when an iteration has completed the bucket does not exist.          *)
C17_LeftoverMakesNoDifference ==
    /\ opc >= 2 =>
          /\ store = StoreBefore(opc)
          /\ cmdRpcOkayCallback(opc,
                 moray(store, cmdRpcOkayFuncs[opc]).err) = "next"
    /\ (olast.step >= 1 /\ ~ olast.fault) => olast.out = "next"
    /\ (opc = 0 /\ olast.step = Len(cmdRpcOkayFuncs)) => store = CleanStore

(* An iteration that found an indexed test bucket with an object in it has *)
(* completed.                                                              *)
C17_Witness ==
    /\ ostart.exists
    /\ ostart.indexed
    /\ ostart.objs # << >>
    /\ olast.step = Len(cmdRpcOkayFuncs)
    /\ olast.out = "next"
    /\ store = CleanStore

(* C18: when the server answers the GetObject of an operation, which is    *)
(* sent only after the operation's PutObject has succeeded, it returns     *)
(* without error exactly the value that was put, whatever the other        *)
(* operations, at most concurrency - 1 of them, are doing meanwhile.       *)
C18_GetReturnsWhatWasPut ==
    /\ \A i \in Ops :
          ops[i].pc = "getting" => i \in DOMAIN bucket /\ bucket[i] = op_value
    /\ (llast.kind = "getObject" /\ ~ llast.fault) =>
          /\ llast.err = NoErr
          /\ llast.value = op_value
          /\ llast.out = "finish"
    /\ Cardinality(Running(ops)) <= concurrency

(* A GetObject has just returned the value put while another operation is *)
(* waiting for its PutObject and explicit errors are not ignored.          *)
C18_Witness ==
    /\ ~ ignoreExplicitErrors
    /\ llast.kind = "getObject"
    /\ llast.value = op_value
    /\ llast.out = "finish"
    /\ \E j \in Ops : j # llast.op /\ ops[j].pc = "putting"

(* C19: in normal soak operation the process stays alive once a command    *)
(* has completed its setup, and every command that has completed its setup *)
(* goes on to start iteration after iteration, up to any bound MaxIter put *)
(* on the count, whatever the other commands and their setups do.          *)
C19_EveryCommandKeepsIterating ==
    /\ []((\E c \in Cmds : setupState[c] = "done") => Alive)
    /\ \A c \in Cmds :
          (setupState[c] = "done") ~> (Alive /\ NStarted(c) = MaxIter)

(* One command has started its last iteration within the bound while the   *)
(* setup of another has not called back yet.                               *)
C19_Witness ==
    /\ Alive
    /\ \E c, d \in Cmds :
          /\ NStarted(c) = MaxIter
          /\ outstanding[c] = {MaxIter}
          /\ setupState[d] = "pending"

(* C21: the client of a command is created once, by its setup: from the    *)
(* turn in which a command has a client on, no turn creates another client *)
(* for it, replaces it or changes its parameters, and a client is attached *)
(* to a command only while that command has started no iteration yet;      *)
(* every iteration and every reconnect cycle runs with that client.        *)
C21_ClientCreatedOnceInSetup ==
    [][/\ \A c \in AllCmds :
            /\ ctxClient[c] # 0 =>
                  /\ ctxClient'[c] = ctxClient[c]
                  /\ clients'[ctxClient[c]] = clients[ctxClient[c]]
            /\ ctxClient'[c] # ctxClient[c] =>
                  xpc[c] \in {"init", "serverStarting"}
       /\ (\A c \in AllCmds : ctxClient[c] # 0) => clients' = clients]_vars

(* A later iteration of the reconnect command has just started a server   *)
(* of its own, with the client its setup created, while the disconnected   *)
(* command has completed an iteration with the one its setup created.      *)
C21_Witness ==
    /\ xlast.op = "scCommandLoop"
    /\ xlast.cmd = 2
    /\ Cardinality({s \in servers : s.owner = 2}) = 1
    /\ clients[ctxClient[2]] = cmdRpcReconnectSetup
    /\ ctxClient[2] = 2
    /\ xpc[1] = "idle"
    /\ clients[ctxClient[1]] = cmdRpcDisconnectedSetup
    /\ Len(clients) = Cardinality(AllCmds)

(* The pipeline functions that change the workspace in a real run, and the *)
(* contents that the one that is running would write.                      *)
MkdirSteps == {"configureMkdirpClient", "configureMkdirpServer"}
WriteSteps == {"configureWriteServerConfig", "configureWriteEnv"}
InstallSteps == {"configureInstallClient", "configureInstallServer"}
CfgStep == IF cfgpc \in 1 .. Len(funcs(cfgctx)) THEN funcs(cfgctx)[cfgpc] ELSE "none"
CfgContents ==
    IF CfgStep = "configureWriteEnv" THEN envContents(cfgctx)
    ELSE cfgctx.c_server_base_config
PrintsAndContinues ==
    /\ cfgerr' = ""
    /\ cfgpc' = cfgpc + 1
    /\ Len(stdout') = Len(stdout) + 1

(* C22 as stated: in a dry run nothing is created, written or run, and     *)
(* every step that would do so prints its command and the pipeline goes on *)
(* (an install step counts from its exec on, after package.json was        *)
(* checked).                                                               *)
C22_DryRunPrintsAndContinues ==
    [][cfgctx.c_dryrun =>
          /\ fsys' = fsys
          /\ syscalls' = syscalls
          /\ CfgStep \in MkdirSteps \cup WriteSteps => PrintsAndContinues
          /\ (/\ CfgStep \in InstallSteps
              /\ cfgerr' \notin {"read", "parse", "expected package name"}) =>
                 PrintsAndContinues]_vars

(* C22: in a dry run no directory is created, no file is written and no    *)
(* command is run; a mkdir step and the exec of an install step print      *)
(* their command and the pipeline goes on; a write step prints its         *)
(* here-document and goes on unless the contents hold the delimiter EOF,   *)
(* and then it prints nothing and configure fails with an internal error.  *)
C22_DryRunChangesNothing ==
    [][cfgctx.c_dryrun =>
          /\ fsys' = fsys
          /\ syscalls' = syscalls
          /\ CfgStep \in MkdirSteps => PrintsAndContinues
          /\ (/\ CfgStep \in InstallSteps
              /\ cfgerr' \notin {"read", "parse", "expected package name"}) =>
                 PrintsAndContinues
          /\ CfgStep \in WriteSteps =>
                IF HasEom(CfgContents)
                THEN /\ cfgerr' = "internal error: unsupported file contents"
                     /\ stdout' = stdout
                     /\ cfgpc' = cfgpc
                ELSE PrintsAndContinues]_vars

(* A dry run for a local server has run to its end in a workspace that     *)
(* has the client installed: it printed its six commands and left the      *)
(* workspace as it was.                                                    *)
C22_Witness ==
    /\ cfgctx.c_dryrun
    /\ ~ cfgctx.c_use_remote
    /\ cfgpc = Len(funcs(cfgctx)) + 1
    /\ cfgerr = ""
    /\ fsys = {c_client_installed}
    /\ syscalls = << >>
    /\ [i \in 1 .. Len(stdout) |-> stdout[i].say] =
          << "mkdir -p", "mkdir -p", "cat >", "(cd && npm)", "(cd && npm)", "cat >" >>

(* C23: a watchdog timer that is set belongs to the outstanding iteration  *)
(* of its command (it is the handle in ctx.timer, set when that iteration  *)
(* started), so the timer of an iteration that has completed never fires;  *)
(* and the process is aborted only in a turn in which the watchdog of a    *)
(* command fires whose outstanding iteration started at least the limit    *)
(* ago.                                                                    *)
C23_WatchdogOnlyForOverdueIteration ==
    /\ [](\A t \in timers :
             t.func = "scWatchdogFire" =>
                /\ outstanding[t.cmd] = {ctx[t.cmd].nstarted}
                /\ t.id = ctx[t.cmd].timer
                /\ t.set = ctx[t.cmd].lastStarted)
    /\ [][(proc' = "aborted" /\ proc # "aborted") =>
             /\ lastTurn'.op = "scWatchdogFire"
             /\ lastTurn'.cmd \in Cmds
             /\ outstanding[lastTurn'.cmd] = {ctx[lastTurn'.cmd].nstarted}
             /\ (now - ctx[lastTurn'.cmd].lastStarted) * TickMs >= scWatchdogLimit]_vars

(* The watchdog of a command has fired for its second iteration, the first *)
(* of which completed in time, while another command has completed an      *)
(* iteration whose timer was cleared.                                      *)
C23_Witness ==
    /\ proc = "aborted"
    /\ lastTurn.op = "scWatchdogFire"
    /\ outstanding[lastTurn.cmd] = {2}
    /\ \E d \in Cmds : /\ d # lastTurn.cmd
                       /\ NStarted(d) >= 1
                       /\ outstanding[d] = {}
                       /\ Armed(d) = {}

(* C24 as stated: scCommandLoop is entered from scCommandStart at most     *)
(* once per command: a setup callback that runs when the setup of its      *)
(* command is already done starts no iteration.                            *)
C24_LoopStartedOnce ==
    [][\A c \in Cmds :
          (/\ lastTurn'.op = "SetupCallback"
           /\ lastTurn'.cmd = c
           /\ setupState[c] = "done") =>
              /\ NStarted(c)' = NStarted(c)
              /\ Armed(c)' = Armed(c)]_vars

(* C25: no setup is invoked before the shared server is ready, and then    *)
(* the setups of all commands are invoked in one turn; a setup that was    *)
(* invoked is never invoked again; and the turn in which the setup of a    *)
(* command succeeds starts that command's first iteration, whatever the    *)
(* state of the other setups.                                              *)
C25_SetupOnceThenFirstIteration ==
    /\ [](\A c \in Cmds :
             setupState[c] # "notStarted" =>
                /\ scServer
                /\ c \in DOMAIN ctx
                /\ \A d \in Cmds : setupState[d] # "notStarted")
    /\ [][\A c \in Cmds :
             /\ setupState[c] # "notStarted" =>
                   /\ setupState'[c] # "notStarted"
                   /\ setupState[c] # "pending" => setupState'[c] = setupState[c]
                   /\ ctx'[c].setupStarted = ctx[c].setupStarted
             /\ (setupState[c] # "done" /\ setupState'[c] = "done") =>
                   /\ NStarted(c)' = 1
                   /\ outstanding'[c] = {1}
                   /\ ctx'[c].lastStarted = ctx'[c].setupDone]_vars

(* A command runs its first iteration while the setup of another command   *)
(* has not called back yet.                                                *)
C25_Witness ==
    \E c, d \in Cmds :
        /\ setupState[c] = "done"
        /\ outstanding[c] = {1}
        /\ setupState[d] = "pending"
        /\ ctx[d].setupStarted = ctx[c].setupStarted
        /\ ndone = 1

(* C26: while the setup of a command has not called back, the command has  *)
(* no timer (ctx.timer is null and no watchdog of it is set), has started  *)
(* no iteration, and however long the setup takes no watchdog fires for    *)
(* it; meanwhile every other command whose setup is done goes on: the exec *)
(* of its outstanding iteration can call back and its scheduled next       *)
(* iteration can start.                                                    *)
C26_NoWatchdogDuringSetup ==
    /\ [](\A c \in Cmds :
             setupState[c] = "pending" =>
                /\ ctx[c].timer = NullTimer
                /\ ctx[c].nstarted = 0
                /\ ctx[c].setupDone = NullDate
                /\ Armed(c) = {}
                /\ outstanding[c] = {}
                /\ ~ (lastTurn.op = "scWatchdogFire" /\ lastTurn.cmd = c)
                /\ \A d \in Cmds :
                      (Alive /\ setupState[d] = "done") =>
                         /\ outstanding[d] # {} => ENABLED ExecCallback(d, FALSE)
                         /\ (immediates[d] > 0 /\ ctx[d].nstarted < MaxIter) =>
                               ENABLED ImmediateRun(d))
    /\ [][\A c \in Cmds :
             (setupState[c] = "pending" /\ setupState'[c] = "pending") =>
                ctx'[c] = ctx[c]]_vars

(* The setup of a command has been pending for as long as the clock of the *)
(* model runs, longer than the watchdog limit, and the process is alive;   *)
(* another command has meanwhile started all its iterations.               *)
C26_Witness ==
    \E c, d \in Cmds :
        /\ setupState[c] = "pending"
        /\ (now - ctx[c].setupStarted) * TickMs >= scWatchdogLimit
        /\ Alive
        /\ setupState[d] = "done"
        /\ ctx[d].nstarted = MaxIter

(* C27: a turn that starts an iteration of command c (its setup callback   *)
(* or its scheduled scCommandLoop) or completes one (its exec callback)    *)
(* leaves the context, the outstanding iterations, the scheduled starts    *)
(* and the timers of every other command as they were.                     *)
C27_IterationTouchesOwnContextOnly ==
    [][\A c \in Cmds :
          (/\ lastTurn'.op \in {"SetupCallback", "scCommandLoop", "ExecCallback"}
           /\ lastTurn'.cmd = c) =>
              \A d \in Cmds \ {c} :
                  /\ d \in DOMAIN ctx => ctx'[d] = ctx[d]
                  /\ outstanding'[d] = outstanding[d]
                  /\ immediates'[d] = immediates[d]
                  /\ ntimers'[d] = ntimers[d]
                  /\ {t \in timers' : t.cmd = d} = {t \in timers : t.cmd = d}]_vars

(* An iteration of one command has just completed and its next one is      *)
(* scheduled, while another command is in the middle of its second         *)
(* iteration with its watchdog armed.                                      *)
C27_Witness ==
    \E c, d \in Cmds :
        /\ c # d
        /\ lastTurn = Turn("ExecCallback", c, Nothing)
        /\ immediates[c] = 1
        /\ ctx[c].nstarted = 1
        /\ outstanding[d] = {2}
        /\ Armed(d) # {}

(* C28: an iteration of the disconnected command passes exactly when its   *)
(* listBuckets returned an error, of whatever kind; when the call          *)
(* succeeded the iteration fails, the process is dead and nothing runs any *)
(* more.  The client it calls was connected to a server that has exited.   *)
C28_DisconnectedPassesIffError ==
    /\ xpc[1] = "exec" =>
          /\ ctxClient[1] # 0
          /\ \A s \in servers : s.owner # 1
    /\ (xlast.op = "listBuckets" /\ xlast.cmd = 1) =>
          /\ xlast.out = "pass" <=> xlast.err # NoErr
          /\ xlast.out = "pass" => xpc[1] = "idle"
          /\ xlast.err = NoErr =>
                /\ xlast.out = "fail"
                /\ xpc[1] = "dead"
                /\ ~ ENABLED ConnNext

(* The listBuckets of the disconnected command has failed with an error    *)
(* that is not of a transport kind, and the iteration passed.              *)
C28_Witness ==
    /\ xlast.op = "listBuckets"
    /\ xlast.cmd = 1
    /\ xlast.err = << "FastRequestError" >>
    /\ xlast.out = "pass"
    /\ xpc[1] = "idle"

(* C29: the poll loop of a reconnect iteration sends at most maxloops + 1  *)
(* pings: the count starts at 0 when the iteration starts; a ping that     *)
(* succeeds ends the loop and the server is shut down; a ping that fails   *)
(* is followed by another one, sent by the 100 ms timer and by nothing     *)
(* else, as long as no more than maxloops pings were sent; and when ping   *)
(* maxloops + 1 fails the iteration fails and the process is dead.         *)
C29_PollLoopBounded ==
    /\ [](/\ nloops <= maxloops + 1
          /\ xpc[2] = "setupServer" => nloops = 0
          /\ xlast.op = "ping" =>
                /\ xlast.out = "next" <=> xlast.err = NoErr
                /\ xlast.out = "retry" <=>
                      (xlast.err # NoErr /\ nloops <= maxloops)
                /\ xlast.out = "fail" <=>
                      (xlast.err # NoErr /\ nloops = maxloops + 1)
                /\ xlast.out = "next" => xpc[2] = "shutdown"
                /\ xlast.out = "retry" => xpc[2] = "pollWait"
                /\ xlast.out = "fail" => xpc[2] = "dead" /\ ~ ENABLED ConnNext)
    /\ [][/\ (xpc[2] = "pollWait" /\ xpc'[2] # "pollWait") =>
                 /\ xlast'.op = "pollTimer"
                 /\ xpc'[2] = "pinging"
                 /\ nloops' = nloops
          /\ nloops' # nloops =>
                \/ xlast'.op = "ping" /\ nloops' = nloops + 1
                \/ xlast'.op \in {"main", "scCommandLoop"} /\ nloops' = 0]_vars

(* Every ping of the poll loop failed: the last one allowed has just       *)
(* failed, and the iteration with it.                                      *)
C29_Witness ==
    /\ xlast.op = "ping"
    /\ xlast.out = "fail"
    /\ nloops = maxloops + 1
    /\ xpc[2] = "dead"

(* The steps of a reconnect iteration, in the order of its pipeline. *)
ReconnectOrder ==
    { << "init", "setupServer" >>, << "idle", "setupServer" >>,
      << "setupServer", "pinging" >>, << "pinging", "pollWait" >>,
      << "pollWait", "pinging" >>, << "pinging", "shutdown" >>,
      << "shutdown", "finalPing" >>, << "finalPing", "idle" >>,
      << "pinging", "dead" >>, << "finalPing", "dead" >> }
OwnServers(c) == {s \in servers : s.owner = c}

(* C30: a reconnect iteration goes through its phases in order: its server *)
(* is started and reports ready, pings are sent until one succeeds, only   *)
(* then the server is shut down, and the final ping is sent only when the  *)
(* server has exited.  The command has one server of its own from the      *)
(* start of an iteration to the exit it waits for, which is the only turn  *)
(* that removes it, and none between that exit and the start of the next   *)
(* iteration.                                                              *)
C30_ReconnectPhasesInOrder ==
    /\ [](/\ xpc[2] \in {"setupServer", "pinging", "pollWait", "shutdown"} =>
                Cardinality(OwnServers(2)) = 1
          /\ xpc[2] \in {"init", "finalPing", "idle"} => OwnServers(2) = {})
    /\ [][/\ xpc'[2] # xpc[2] => << xpc[2], xpc'[2] >> \in ReconnectOrder
          /\ (xpc[2] = "setupServer" /\ xpc'[2] = "pinging") =>
                xlast'.op = "serverReady"
          /\ (xpc[2] = "pinging" /\ xpc'[2] = "shutdown") =>
                xlast'.op = "ping" /\ xlast'.err = NoErr
          /\ (xpc[2] = "shutdown" /\ xpc'[2] = "finalPing") =>
                xlast'.op = "serverExit"
          /\ OwnServers(2)' # OwnServers(2) =>
                \/ xpc'[2] = "setupServer" /\ OwnServers(2) = {}
                \/ xpc[2] = "shutdown" /\ xpc'[2] = "finalPing"]_vars

(* The server of a reconnect iteration has exited after a poll loop that   *)
(* needed a second ping, and the final ping is on its way.                 *)
C30_Witness ==
    /\ xlast.op = "serverExit"
    /\ xlast.cmd = 2
    /\ xpc[2] = "finalPing"
    /\ nloops = 2
    /\ OwnServers(2) = {}

(* C31: each sweep has one call outstanding: its step counter moves only   *)
(* when the call of the current step has called back, from step k to step  *)
(* k + 1 (or, after the last step, to the end of the iteration) only when  *)
(* that callback reported no error; when a step reports an error the       *)
(* iteration ends with that error and the sweep issues no call any more.   *)
C31_OneStepAtATime ==
    [][/\ fpc' # fpc =>
             \/ fpc = 0 /\ fpc' = 1
             \/ /\ fpc >= 1
                /\ flast'.step = fpc
                /\ IF flast'.out = "next"
                   THEN fpc' = IF fpc = Len(cmdRpcFailFuncs) THEN 0 ELSE fpc + 1
                   ELSE fpc' = -1
       /\ (fpc >= 1 /\ flast' # flast) =>
             /\ fpc' # fpc
             /\ flast'.out = "fail" =>
                   (flast'.res.err # NoErr /\ fpc' = -1)
       /\ opc' # opc =>
             \/ opc = 0 /\ opc' = 1
             \/ /\ opc >= 1
                /\ olast'.step = opc
                /\ IF olast'.out = "next"
                   THEN opc' = IF opc = Len(cmdRpcOkayFuncs) THEN 0 ELSE opc + 1
                   ELSE opc' = -1
       /\ (opc >= 1 /\ olast' # olast) =>
             /\ opc' # opc
             /\ olast'.out = "fail" => (olast'.err # NoErr /\ opc' = -1)
       /\ (fpc = -1 \/ opc = -1) => UNCHANGED << fpc, opc, flast, olast, store >>]_vars

(* The failure sweep is in the middle of its pipeline when a step of the   *)
(* success sweep, well into its own, reports an error, which ends the      *)
(* iteration.                                                              *)
C31_Witness ==
    /\ opc = -1
    /\ olast.step = 10
    /\ olast.out = "fail"
    /\ olast.err # NoErr
    /\ fpc = 5
    /\ flast.step = 4
    /\ flast.out = "next"

(* C32: whatever the success sweep is doing to the server, every step of   *)
(* the failure sweep that the server answers gets an error its callback    *)
(* accepts: of the step's expected kind where the step names one; no       *)
(* bucket on the server has the bogus or the invalid name, and the names   *)
(* of the three buckets differ.                                            *)
C32_FailureSweepUndisturbed ==
    /\ scTestBucketBogus \notin Buckets(store)
    /\ scTestBucketInvalid \notin Buckets(store)
    /\ (flast.step >= 1 /\ flast.res.err # TransportError) =>
          /\ flast.out = "next"
          /\ flast.res.err # NoErr
          /\ cmdRpcFailFuncs[flast.step].errtypes # {} =>
                \E i \in DOMAIN flast.res.err :
                    flast.res.err[i] \in cmdRpcFailFuncs[flast.step].errtypes

(* A step of the failure sweep that names the bogus bucket has got its     *)
(* BucketNotFoundError while the test bucket of the success sweep exists   *)
(* with objects in it.                                                     *)
C32_Witness ==
    /\ flast.step = 7
    /\ flast.res.err = << "BucketNotFoundError" >>
    /\ flast.out = "next"
    /\ store.exists
    /\ DOMAIN store.objs = {"key2", "key3", "key5", "key7", "key9"}
    /\ opc = 8

(* C33: createServer calls its readiness callback at most once, and it has *)
(* called it exactly when the output received so far holds both            *)
(* 'moray listening on <port>' and 'manatee ready', whatever their order   *)
(* and however they were split into chunks; the callback disarms the       *)
(* 10 second timer, and output that arrives afterwards calls nothing.      *)
C33_ReadyOnceOnBothMarkers ==
    /\ hlast.ncb <= 1
    /\ ready <=> hlast.ncb = 1
    /\ ready <=> (morayListening(seen) /\ manateeReady(seen))
    /\ ready => ~ startTimer

(* The markers arrived in the other order, the callback was called once,   *)
(* and more output has arrived since.                                      *)
C33_Witness ==
    /\ seen = << "manatee ", "ready", "moray listening on ", "2020", "x" >>
    /\ hlast.op = "data"
    /\ hlast.out = "none"
    /\ hlast.ncb = 1
    /\ ready

(* C34: the 'exit' handler calls the cleanup callback exactly when         *)
(* cleanupServer had been called for the server, the signal is SIGKILL and *)
(* the status is not 0; the callback it calls is the one cleanupServer     *)
(* recorded; in every other case it throws, the process is dead and no     *)
(* cleanup callback has been called.                                       *)
C34_CleanupCallbackIffKilled ==
    /\ hlast.ncleanup <= 1
    /\ hlast.ncleanup = 1 => server.ts_child = "exited"
    /\ hlast.op = "exit" =>
          /\ hlast.out = "callback" <=>
                /\ server.ts_cleanup_cb # 0
                /\ hlast.signal = "SIGKILL"
                /\ hlast.code # 0
          /\ hlast.out = "callback" => (hlast.ncleanup = 1 /\ kills = 1 /\ HAlive)
          /\ hlast.out # "callback" =>
                /\ hlast.out = "throw"
                /\ hlast.ncleanup = 0
                /\ hproc = "crashed"
                /\ ~ ENABLED HelperNext

(* The child that cleanupServer killed has exited by SIGKILL and the       *)
(* cleanup callback was called.                                            *)
C34_Witness ==
    /\ hlast.op = "exit"
    /\ hlast.signal = "SIGKILL"
    /\ hlast.code = -1
    /\ hlast.out = "callback"
    /\ hlast.ncleanup = 1
    /\ server.ts_cleanup_cb = 2

(* C35: cleanupServer takes effect at most once for a local server: the    *)
(* first call records its callback and sends one SIGKILL to the process    *)
(* group; a later call throws, and neither the recorded callback nor the   *)
(* number of signals sent changes in that or any later step.               *)
C35_CleanupServerAtMostOnce ==
    /\ [](/\ kills <= 1
          /\ kills = 1 <=> server.ts_cleanup_cb # 0
          /\ (hlast.op = "cleanupServer" /\ hlast.out = "killed") =>
                (kills = 1 /\ HAlive)
          /\ (hlast.op = "cleanupServer" /\ hlast.out = "throw") =>
                (kills = 1 /\ hproc = "crashed" /\ ~ ENABLED HelperNext))
    /\ [][server.ts_cleanup_cb # 0 =>
             /\ server'.ts_cleanup_cb = server.ts_cleanup_cb
             /\ kills' = kills]_vars

(* cleanupServer was called a second time, with another callback, and      *)
(* threw: the first callback is still the recorded one.                    *)
C35_Witness ==
    /\ hlast.op = "cleanupServer"
    /\ hlast.out = "throw"
    /\ server.ts_cleanup_cb = 1
    /\ server.ts_child = "running"
    /\ kills = 1

Finished(o) == {i \in Ops : o[i].pc = "done"}

(* C36: in the loop test every operation is counted exactly once: nokay +  *)
(* nfailed is the number of finished operations and never exceeds          *)
(* noperations; cleanup() runs once, in the step that finishes the last    *)
(* operation, and not before nokay + nfailed = noperations.                *)
C36_EveryOperationCountedOnce ==
    /\ [](/\ nokay + nfailed = Cardinality(Finished(ops))
          /\ nokay + nfailed <= noperations
          /\ lphase \in {"cleanup", "closed"} => nokay + nfailed = noperations
          /\ lphase \in {"connecting", "running"} =>
                nokay + nfailed < noperations)
    /\ [][/\ lphase' = "cleanup" =>
                /\ lphase \in {"running", "cleanup"}
                /\ nokay' + nfailed' = noperations
          /\ (lphase = "running" /\ lphase' = "cleanup") =>
                nokay + nfailed = noperations - 1
          /\ lphase = "cleanup" => (ops' = ops /\ nokay' = nokay
                                                /\ nfailed' = nfailed)
          /\ (nokay' + nfailed') - (nokay + nfailed) \in {0, 1}]_vars

(* All operations are finished, some counted as failed and some as         *)
(* successful, and cleanup() has run and closed the client.                *)
C36_Witness ==
    /\ lphase = "closed"
    /\ nokay = noperations - 1
    /\ nfailed = 1
    /\ Finished(ops) = Ops

(* C37: an operation is counted by its result: the step that finishes an   *)
(* operation whose PutObject or GetObject failed adds one to nfailed and   *)
(* to nbyerror under the error's name and leaves nokay alone, and the step *)
(* that adds one to nokay is the callback of a GetObject that succeeded    *)
(* (which is sent only after the PutObject succeeded).                     *)
C37_CountedByResult ==
    [][\A i \in Ops :
          (ops[i].pc # "done" /\ ops'[i].pc = "done") =>
              /\ llast'.op = i
              /\ llast'.err # NoErr =>
                    /\ nfailed' = nfailed + 1
                    /\ nokay' = nokay
                    /\ errname(llast'.err) \in DOMAIN nbyerror'
              /\ nokay' = nokay + 1 =>
                    /\ llast'.kind = "getObject"
                    /\ llast'.err = NoErr]_vars

Outstanding(o) == {i \in Ops : o[i].op_timeout # NoTimeout}

SanitySteps ==
    {"configureSanityCheckClientDirectory", "configureSanityCheckServerDirectory"}
CheckedDirs(cfg) ==
    IF cfg.c_use_remote THEN {c_client_installed}
    ELSE {c_client_installed, c_server_installed}
CheckedDir ==
    IF CfgStep = "configureSanityCheckClientDirectory" THEN c_client_installed
    ELSE c_server_installed

C40_StartedIffLastStarted ==
    \A c \in DOMAIN ctx :
        /\ ctx[c].nstarted = 0 <=> ctx[c].lastStarted = NullDate
        /\ ctx[c].nstarted >= 1 =>
              /\ ctx[c].setupDone # NullDate
              /\ ctx[c].setupStarted <= ctx[c].setupDone
              /\ ctx[c].setupDone <= ctx[c].lastStarted
              /\ setupState[c] = "done"

(* One command is in its second iteration, started after the clock moved,  *)
(* while the setup of another has not called back: its counters are still  *)
(* 0 and null.                                                             *)
C40_Witness ==
    \E c, d \in DOMAIN ctx :
        /\ ctx[c].nstarted = 2
        /\ ctx[c].lastStarted > ctx[c].setupDone
        /\ ctx[d].nstarted = 0
        /\ ctx[d].lastStarted = NullDate
        /\ ctx[d].setupDone = NullDate
        /\ setupState[d] = "pending"

====
